---- MODULE Spec2Model ----
(***************************************************************************)
(* The instruction interpreter of the geometry model builder               *)
(* (src/src/optimizer.py, class Optimizer): the name registry, the loss,   *)
(* NDG and goal registries, the segment and circle accumulators, the       *)
(* construction handlers, the predicate evaluator, root selection and the  *)
(* geometry kernel they call.                                              *)
(*                                                                         *)
(* Scalars are exact: a scalar is (n/d)*sqrt(r) with d > 0 and r           *)
(* squarefree, so that dist really is a square root and a**2 really        *)
(* squares it again.  Undef is the value of a division by zero or of the   *)
(* square root of a negative number (NaN); Irr stands for a real number    *)
(* outside the represented form.                                           *)
(***************************************************************************)
EXTENDS Integers, Sequences, FiniteSets, TLC

(***************************************************************************)
(* Bounds of the model                                                     *)
(***************************************************************************)
\* instructions that follow the sampling prefix of a program
MaxTail == 1
\* the points given to a kernel function have coordinates in 0..MaxCoord
MaxCoord == 2
\* the largest number of points given to an n-ary predicate
MaxArgs == 5
\* calls of preprocess on one interpreter
MaxPasses == 2

(***************************************************************************)
(* Local names: v = e followed by the code that reads v                    *)
(***************************************************************************)
Bind(v, F(_)) == F(v)

Bind2(u, v, F(_, _)) == F(u, v)

Bind3(u, v, w, F(_, _, _)) == F(u, v, w)

\* a, b = t
Pair(t, F(_, _)) == F(t[1], t[2])

\* a, b, c = t
Triple(t, F(_, _, _)) == F(t[1], t[2], t[3])

(***************************************************************************)
(* Scalars of the numeric backend                                          *)
(***************************************************************************)
Undef == <<0, 0, 0>>
Irr == <<0, 0, 1>>
Zero == <<0, 1, 1>>

IsNum(x) == x[2] # 0

\* the result of an operation one of whose operands is not a number
NotNum(x, y) == IF Undef \in {x, y} THEN Undef ELSE Irr

RECURSIVE GCD(_, _)
GCD(a, b) == IF b = 0 THEN a ELSE GCD(b, a % b)

\* floor of the square root of m >= 0, by bisection: lo*lo <= m < hi*hi
RECURSIVE ISqrtIn(_, _, _)
ISqrtIn(m, lo, hi) ==
  IF hi - lo <= 1 THEN lo
  ELSE IF ((lo + hi) \div 2) * ((lo + hi) \div 2) <= m
    THEN ISqrtIn(m, (lo + hi) \div 2, hi)
  ELSE ISqrtIn(m, lo, (lo + hi) \div 2)

\* s if r = s*s, else 1
RootOrOne(r, s) == IF s * s = r THEN s ELSE 1

\* the largest s with s*s dividing r > 0, by trial division from k upward:
\* every factor below k has been divided out of r, and once k*k*k > r what
\* is left is 1, a prime, the square of a prime or a product of two primes
RECURSIVE SqFactor(_, _)
SqFactor(r, k) ==
  IF k * k * k > r THEN RootOrOne(r, ISqrtIn(r, 0, 46341))
  ELSE IF r % (k * k) = 0 THEN k * SqFactor(r \div (k * k), k)
  ELSE IF r % k = 0 THEN SqFactor(r \div k, k + 1)
  ELSE SqFactor(r, k + 1)

\* (n/d)*sqrt(r) in lowest terms, for d > 0 and r squarefree
Mk(n, d, r) ==
  IF n = 0 THEN Zero
  ELSE Bind(GCD(d, n % d), LAMBDA g : <<n \div g, d \div g, r>>)

Rat(n, d) == Mk(n, d, 1)

const(n) == <<n, 1, 1>>

SNeg(x) == <<-x[1], x[2], x[3]>>

SAdd(x, y) ==
  IF ~IsNum(x) \/ ~IsNum(y) THEN NotNum(x, y)
  ELSE IF x[1] = 0 THEN y
  ELSE IF y[1] = 0 THEN x
  ELSE IF x[3] # y[3] THEN Irr
  ELSE Bind(GCD(x[2], y[2]), LAMBDA g :
         Mk(x[1] * (y[2] \div g) + y[1] * (x[2] \div g), (x[2] \div g) * y[2], x[3]))

SSub(x, y) == SAdd(x, SNeg(y))

\* sqrt(r1)*sqrt(r2) = g*sqrt((r1/g)*(r2/g)) with g the gcd of the radicands;
\* g1 and g2 cancel across the fractions before the products are formed
SMul(x, y) ==
  IF Undef \in {x, y} THEN Undef
  ELSE IF Zero \in {x, y} THEN Zero
  ELSE IF Irr \in {x, y} THEN Irr
  ELSE Bind3(GCD(x[3], y[3]), GCD(y[2], x[1] % y[2]), GCD(x[2], y[1] % x[2]),
             LAMBDA g, g1, g2 :
               Mk((x[1] \div g1) * (y[1] \div g2) * g, (x[2] \div g2) * (y[2] \div g1),
                  (x[3] \div g) * (y[3] \div g)))

\* 1 / y for a number y # 0: d/(n*sqrt(r)) = d*sqrt(r)/(n*r)
SInv(y) ==
  IF y[1] > 0 THEN Mk(y[2], y[1] * y[3], y[3]) ELSE Mk(-y[2], -(y[1] * y[3]), y[3])

\* x / y; a division by zero has no value
SDiv(x, y) ==
  IF y[1] # 0 THEN SMul(x, SInv(y))
  ELSE IF y = Irr /\ x # Undef THEN Irr
  ELSE Undef

\* x ** 2
SSq(x) == IF IsNum(x) THEN Mk(x[1] * x[1] * x[3], x[2] * x[2], 1) ELSE x

\* the square root of a rational n/d is sqrt(n)*sqrt(d)/d; of a negative
\* number it has no value
sqrt(x) ==
  IF x = Undef \/ x[1] < 0 THEN Undef
  ELSE IF x[3] # 1 THEN Irr
  ELSE IF x = Zero THEN Zero
  ELSE Bind2(SqFactor(x[1], 2), SqFactor(x[2], 2), LAMBDA a, b :
         Mk(a * b, x[2], (x[1] \div (a * a)) * (x[2] \div (b * b))))

Sign(x) == IF x[1] > 0 THEN 1 ELSE IF x[1] < 0 THEN -1 ELSE 0

\* q < 1 for q = (n/d)*sqrt(r) > 0: by the integer part s of sqrt(r) when
\* that decides it, else by the squares
PosLtOne(q) ==
  IF q[3] = 1 THEN q[1] < q[2]
  ELSE Bind(ISqrtIn(q[3], 0, 46341), LAMBDA s :
         IF q[2] <= s * q[1] THEN FALSE
         ELSE IF q[2] >= (s + 1) * q[1] THEN TRUE
         ELSE q[1] * q[1] * q[3] < q[2] * q[2])

\* x < y; a comparison with a value that is not a number is false
lt(x, y) ==
  /\ IsNum(x) /\ IsNum(y)
  /\ IF Sign(x) # Sign(y) THEN Sign(x) < Sign(y)
     ELSE Sign(x) # 0 /\ x # y /\ (PosLtOne(SDiv(x, y)) <=> Sign(x) > 0)

gt(x, y) == lt(y, x)

lte(x, y) == IsNum(x) /\ IsNum(y) /\ ~lt(y, x)

abs(x) == IF x[1] < 0 THEN SNeg(x) ELSE x

max(x, y) == IF ~IsNum(x) THEN x ELSE IF ~IsNum(y) THEN y ELSE IF lt(x, y) THEN y ELSE x

cond(c, t_val, f_val) == IF c THEN t_val ELSE f_val

\* the tolerance literals of the source
Eps6 == <<1, 1000000, 1>>
Eps5 == <<1, 100000, 1>>

(***************************************************************************)
(* Points: ordered pairs of scalars                                        *)
(***************************************************************************)
get_point(x, y) == <<x, y>>

PAdd(A, B) == <<SAdd(A[1], B[1]), SAdd(A[2], B[2])>>

PSub(A, B) == <<SSub(A[1], B[1]), SSub(A[2], B[2])>>

smul(A, z) == <<SMul(A[1], z), SMul(A[2], z)>>

(***************************************************************************)
(* Comp. Geo                                                               *)
(***************************************************************************)
midp(A, B) == smul(PAdd(A, B), Rat(1, 2))

midp_from(M, A) == PAdd(A, smul(PSub(M, A), const(2)))

sqdist(A, B) == SAdd(SSq(SSub(A[1], B[1])), SSq(SSub(A[2], B[2])))

dist(A, B) == sqrt(sqdist(A, B))

inner_product(A, B) == SAdd(SMul(A[1], B[1]), SMul(A[2], B[2]))

scalar_product(O, A, B) ==
  SAdd(SMul(SSub(A[1], O[1]), SSub(B[1], O[1])),
       SMul(SSub(A[2], O[2]), SSub(B[2], O[2])))

matrix_mul(mat, pt) ==
  get_point(inner_product(mat[1], pt), inner_product(mat[2], pt))

rotate_counterclockwise_90(pt) ==
  matrix_mul(<<get_point(const(0), const(-1)), get_point(const(1), const(0))>>, pt)

side_lengths(A, B, C) == <<dist(B, C), dist(C, A), dist(A, B)>>

conway_vals(A, B, C) ==
  Triple(side_lengths(A, B, C), LAMBDA a, b, c :
    <<SDiv(SSub(SAdd(SSq(b), SSq(c)), SSq(a)), const(2)),
      SDiv(SSub(SAdd(SSq(c), SSq(a)), SSq(b)), const(2)),
      SDiv(SSub(SAdd(SSq(a), SSq(b)), SSq(c)), const(2))>>)

\* the point with trilinear coordinates x : y : z, from the weights
\* ax = a*x, by = b*y, cz = c*z and their sum
TrilinearOf(A, B, C, ax, by, cz, denom) ==
  get_point(SDiv(SAdd(SAdd(SMul(ax, A[1]), SMul(by, B[1])), SMul(cz, C[1])), denom),
            SDiv(SAdd(SAdd(SMul(ax, A[2]), SMul(by, B[2])), SMul(cz, C[2])), denom))

trilinear(A, B, C, x, y, z) ==
  Triple(side_lengths(A, B, C), LAMBDA a, b, c :
    Bind3(SMul(a, x), SMul(b, y), SMul(c, z), LAMBDA ax, by, cz :
      TrilinearOf(A, B, C, ax, by, cz, SAdd(SAdd(ax, by), cz))))

BarycentricNoSideDivision(A, B, C, x, y, z) == trilinear(A, B, C, x, y, z)

barycentric(A, B, C, x, y, z) ==
  Triple(side_lengths(A, B, C), LAMBDA a, b, c :
    trilinear(A, B, C, SDiv(x, a), SDiv(y, b), SDiv(z, c)))

circumcenter(A, B, C) ==
  Triple(side_lengths(A, B, C), LAMBDA a, b, c :
    Triple(conway_vals(A, B, C), LAMBDA Sa, Sb, Sc :
      barycentric(A, B, C, SMul(SSq(a), Sa), SMul(SSq(b), Sb), SMul(SSq(c), Sc))))

orthocenter(A, B, C) ==
  Triple(conway_vals(A, B, C), LAMBDA Sa, Sb, Sc :
    barycentric(A, B, C, SMul(Sb, Sc), SMul(Sc, Sa), SMul(Sa, Sb)))

centroid(A, B, C) == barycentric(A, B, C, const(1), const(1), const(1))

incenter(A, B, C) == trilinear(A, B, C, const(1), const(1), const(1))

excenter(A, B, C) == trilinear(A, B, C, const(-1), const(1), const(1))

perp_phi(A, B, C, D) ==
  SAdd(SMul(SSub(A[1], B[1]), SSub(C[1], D[1])),
       SMul(SSub(A[2], B[2]), SSub(C[2], D[2])))

para_phi(A, B, C, D) ==
  SSub(SMul(SSub(A[1], B[1]), SSub(C[2], D[2])),
       SMul(SSub(A[2], B[2]), SSub(C[1], D[1])))

cong_diff(A, B, C, D) == SSub(sqdist(A, B), sqdist(C, D))

CollPhiDroppedTerm(A, B, C) ==
  SAdd(SMul(A[1], SSub(B[2], C[2])), SMul(B[1], SSub(C[2], A[2])))

coll_phi(A, B, C) ==
  SAdd(SAdd(SMul(A[1], SSub(B[2], C[2])), SMul(B[1], SSub(C[2], A[2]))),
       SMul(C[1], SSub(A[2], B[2])))

diff_signs(x, y) == max(const(0), SMul(x, y))

\* A moved by eps = 0.2 of the way to B
TowardBy(A, B, eps) ==
  get_point(SAdd(A[1], SMul(eps, SSub(B[1], A[1]))),
            SAdd(A[2], SMul(eps, SSub(B[2], A[2]))))

between_gap(X, A, B) ==
  Bind2(TowardBy(A, B, Rat(1, 5)), TowardBy(B, A, Rat(1, 5)), LAMBDA A1, B1 :
    <<diff_signs(SSub(X[1], A1[1]), SSub(X[1], B1[1])),
      diff_signs(SSub(X[2], A1[2]), SSub(X[2], B1[2]))>>)

onray_gap(X, A, B) ==
  Bind(TowardBy(A, B, Rat(1, 5)), LAMBDA A1 :
    <<diff_signs(SSub(X[1], A1[1]), SSub(A1[1], B[1])),
      diff_signs(SSub(X[2], A1[2]), SSub(A1[2], B[2]))>>)

det3(A, O, B) ==
  SSub(SMul(SSub(A[1], O[1]), SSub(B[2], O[2])),
       SMul(SSub(A[2], O[2]), SSub(B[1], O[1])))

side_score_prod(a, b, x, y) == SMul(det3(a, x, y), det3(b, x, y))

opp_sides(a, b, x, y) == lt(side_score_prod(a, b, x, y), const(0))

same_side(a, b, x, y) == gt(side_score_prod(a, b, x, y), const(0))

\* Two points on a line to slope-intercept form <<m, b, p1, p2>>
pp2sif(p1, p2) ==
  Bind(SDiv(SSub(p2[2], p1[2]), SSub(p2[1], p1[1])), LAMBDA m :
    <<m, SSub(p1[2], SMul(m, p1[1])), p1, p2>>)

inter_ll(sif1, sif2) ==
  Bind(SDiv(SSub(sif2[2], sif1[2]), SSub(sif1[1], sif2[1])), LAMBDA px :
    get_point(px, SAdd(SMul(sif1[1], px), sif1[2])))

shift(O, Ps) == [i \in DOMAIN Ps |-> get_point(SSub(Ps[i][1], O[1]), SSub(Ps[i][2], O[2]))]

unshift(O, Ps) == [i \in DOMAIN Ps |-> get_point(SAdd(Ps[i][1], O[1]), SAdd(Ps[i][2], O[2]))]

sgnstar(x) == cond(lt(x, const(0)), const(-1), const(1))

\* the roots when the radicand is not negative; sq is its square root, sdx
\* is sgnstar(dy) * dx * sq, ady is |dy| * sq and dr2 is dr**2
OnNneg(O, D, dx, dy, sdx, ady, dr2) ==
  unshift(O, <<get_point(SDiv(SAdd(SMul(D, dy), sdx), dr2),
                         SDiv(SAdd(SMul(SNeg(D), dx), ady), dr2)),
               get_point(SDiv(SSub(SMul(D, dy), sdx), dr2),
                         SDiv(SSub(SMul(SNeg(D), dx), ady), dr2))>>)

on_nneg(O, D, dx, dy, dr, radicand) ==
  Bind(sqrt(radicand), LAMBDA sq :
    OnNneg(O, D, dx, dy, SMul(SMul(sgnstar(dy), dx), sq), SMul(abs(dy), sq), SSq(dr)))

\* the roots when the radicand is negative: both are the midpoint Q of F,
\* where the line meets its perpendicular through O, and X at distance r
\* from O toward F; P1 and P2 are the shifted points, O is not shifted
on_neg(O, r, P1, P2) ==
  Bind(inter_ll(pp2sif(P1, P2),
                pp2sif(O, PAdd(rotate_counterclockwise_90(PSub(P1, P2)), O))),
       LAMBDA F :
         Bind(midp(F, PAdd(O, smul(PSub(F, O), SDiv(r, dist(O, F))))), LAMBDA Q :
           unshift(O, <<Q, Q>>)))

\* the line and the circle shifted to put the center at the origin
InterShifted(O, r, P1, P2, dx, dy, D) ==
  Bind(sqrt(SAdd(SSq(dx), SSq(dy))), LAMBDA dr :
    Bind(SSub(SMul(SSq(r), SSq(dr)), SSq(D)), LAMBDA radicand :
      cond(lt(radicand, const(0)), on_neg(O, r, P1, P2),
           on_nneg(O, D, dx, dy, dr, radicand))))

\* cnf is <<center, radius>>; the result is the pair of candidate roots
inter_pp_c(P1in, P2in, cnf) ==
  Pair(shift(cnf[1], <<P1in, P2in>>), LAMBDA P1, P2 :
    InterShifted(cnf[1], cnf[2], P1, P2, SSub(P1[1], P2[1]), SSub(P1[2], P2[2]),
                 SSub(SMul(P2[1], P1[2]), SMul(P1[1], P2[2]))))

\* the two points of the radical axis A*x + B*y = C
RadicalAxisOf(A, B, C) ==
  Bind(gt(abs(A), Eps6), LAMBDA test :
    <<cond(test, get_point(SDiv(SSub(C, B), A), const(1)), get_point(const(1), SDiv(C, B))),
      cond(test, get_point(SDiv(C, A), const(0)), get_point(const(0), SDiv(C, B)))>>)

radical_axis_pts(cnf1, cnf2) ==
  RadicalAxisOf(SMul(const(2), SSub(cnf2[1][1], cnf1[1][1])),
                SMul(const(2), SSub(cnf2[1][2], cnf1[1][2])),
                SAdd(SAdd(SSub(SSq(cnf1[2]), SSq(cnf2[2])),
                          SSub(SSq(cnf2[1][2]), SSq(cnf1[1][2]))),
                     SSub(SSq(cnf2[1][1]), SSq(cnf1[1][1]))))

radical_axis(cnf1, cnf2) == Pair(radical_axis_pts(cnf1, cnf2), LAMBDA p1, p2 : pp2sif(p1, p2))

eqangle6_diff(A, B, C, P, Q, R) ==
  SMul(Rat(1, 10), SSub(SMul(det3(A, B, C), scalar_product(P, Q, R)),
                        SMul(det3(P, Q, R), scalar_product(A, B, C))))

cycl_diff(A, B, C, D) == eqangle6_diff(A, B, D, A, C, D)

eqangle8_diff(A, B1, B2, C, P, Q1, Q2, R) ==
  eqangle6_diff(A, B1, PAdd(PSub(C, B2), B1), P, Q1, PAdd(PSub(R, Q2), Q1))

inverse(X, O, A) == PAdd(O, smul(PSub(X, O), SDiv(sqdist(O, A), sqdist(O, X))))

\* X and the vertices Ps of the polygon: one residual per vertex
in_poly_phis(X, Ps) ==
  [i \in 1..Len(Ps) |->
     max(const(0),
         SNeg(side_score_prod(X, Ps[((i + 1) % Len(Ps)) + 1], Ps[i], Ps[(i % Len(Ps)) + 1])))]

\* pt_neq with the comparison of pt_eq
PtNeqAsPtEq(p1, p2) == lt(dist(p1, p2), Eps6)

pt_neq(p1, p2) == gt(dist(p1, p2), Eps6)

(***************************************************************************)
(* The interpreter's state.  instructions is the list the frontend hands   *)
(* to the constructor; fv is the backend's store of free variables (the    *)
(* value mkvar gives each variable name); pc is the position of the loop   *)
(* of preprocess in the list; status tells whether it is still running,    *)
(* returned ("done") or was left by an exception ("raised", with the       *)
(* exception in exc); pass counts the calls of preprocess.  kin and kout   *)
(* hold the argument and the result of a kernel function applied on its    *)
(* own.                                                                    *)
(***************************************************************************)
VARIABLES instructions, fv, name2pt, losses, ndgs, goals, circles, segments,
          pc, status, exc, pass, kin, kout

vars == <<instructions, fv, name2pt, losses, ndgs, goals, circles, segments,
          pc, status, exc, pass, kin, kout>>

EmptyMap == [n \in {} |-> Zero]

Put(f, k, v) == [n \in DOMAIN f \cup {k} |-> IF n = k THEN v ELSE f[n]]

\* the registries and accumulators as one value, with the pending exception
CurState ==
  [name2pt |-> name2pt, losses |-> losses, ndgs |-> ndgs, goals |-> goals,
   circles |-> circles, segments |-> segments, err |-> ""]

Raise(st, e) == [st EXCEPT !.err = e]

Ok(v) == [err |-> "", val |-> v]

Err(e) == [err |-> e, val |-> <<>>]

\* a sequence unpacked into n targets
Unpack(r, n) ==
  IF r.err # "" THEN r
  ELSE IF Len(r.val) # n THEN Err("ValueError")
  ELSE r

\* the code after a call that returned r, or r's exception
Try(r, F(_)) == IF r.err # "" THEN r ELSE F(r.val)

\* the same in a handler, which returns the state
TrySt(st, r, F(_)) == IF r.err # "" THEN Raise(st, r.err) ELSE F(r.val)

None == "<None>"

Truthy(x) == x \notin {None, ""}

(***************************************************************************)
(* The backend's capabilities (abstract methods of Optimizer)              *)
(***************************************************************************)
\* the value of the free variable called name
mkvar(name) == IF name \in DOMAIN fv THEN fv[name] ELSE Zero

Pi == Irr

sigmoid(x) == IF x = Zero THEN <<1, 2, 1>> ELSE IF IsNum(x) THEN Irr ELSE x

exp(x) == IF x = Zero THEN const(1) ELSE IF IsNum(x) THEN Irr ELSE x

tanh(x) == IF x = Zero THEN Zero ELSE IF IsNum(x) THEN Irr ELSE x

sin(x) == IF x = Zero THEN Zero ELSE IF IsNum(x) THEN Irr ELSE x

cos(x) == IF x = Zero THEN const(1) ELSE IF IsNum(x) THEN Irr ELSE x

acos(x) ==
  IF x = const(1) THEN Zero
  ELSE IF ~IsNum(x) THEN x
  ELSE IF lt(const(1), abs(x)) THEN Undef
  ELSE Irr

simplify(P) == P

RECURSIVE SumFrom(_, _)
SumFrom(xs, i) == IF i > Len(xs) THEN Zero ELSE SAdd(xs[i], SumFrom(xs, i + 1))

sum(xs) == SumFrom(xs, 1)

softmax(xs) ==
  Bind(sum([i \in DOMAIN xs |-> exp(xs[i])]), LAMBDA sum_exps :
    [i \in DOMAIN xs |-> SDiv(exp(xs[i]), sum_exps)])

register_pt(st, p, P) == [st EXCEPT !.name2pt = Put(@, p, P)]

register_loss(st, key, var, weight) == [st EXCEPT !.losses = Put(@, key, <<var, weight>>)]

register_ndg(st, key, var, weight) == [st EXCEPT !.ndgs = Put(@, key, <<var, weight>>)]

register_goal(st, key, var) == [st EXCEPT !.goals = Put(@, key, <<var, const(1)>>)]

(***************************************************************************)
(* Kernel functions that use the transcendental capabilities               *)
(***************************************************************************)
rotation_matrix(theta) ==
  <<get_point(cos(theta), SNeg(sin(theta))), get_point(sin(theta), cos(theta))>>

rotate_counterclockwise(theta, pt) == matrix_mul(rotation_matrix(theta), pt)

angle(A, B, C) ==
  Triple(side_lengths(A, B, C), LAMBDA a, b, c :
    acos(SDiv(SSub(SAdd(SSq(a), SSq(c)), SSq(b)), SMul(SMul(const(2), a), c))))

semiperimeter(A, B, C) ==
  Triple(side_lengths(A, B, C), LAMBDA a, b, c : SDiv(SAdd(SAdd(a, b), c), const(2)))

area(A, B, C) ==
  Triple(side_lengths(A, B, C), LAMBDA a, b, c :
    Bind(semiperimeter(A, B, C), LAMBDA s :
      sqrt(SMul(SMul(SMul(s, SSub(s, a)), SSub(s, b)), SSub(s, c)))))

inradius(A, B, C) == SDiv(area(A, B, C), semiperimeter(A, B, C))

exradius(A, B, C) ==
  Triple(side_lengths(A, B, C), LAMBDA a, b, c :
    Bind(SDiv(SAdd(SAdd(a, b), c), const(2)), LAMBDA s :
      SDiv(SMul(inradius(A, B, C), s), SSub(s, a))))

mixtilinear_incenter(A, B, C) ==
  trilinear(A, B, C,
    SMul(Rat(1, 2), SSub(SSub(SAdd(const(1), cos(angle(C, A, B))), cos(angle(A, B, C))),
                         cos(angle(B, C, A)))),
    const(1), const(1))

mixtilinear_inradius(A, B, C) ==
  SMul(inradius(A, B, C), SDiv(const(1), SSq(cos(SDiv(angle(C, A, B), const(2))))))

second_meet_pp_c(A, B, O) ==
  Pair(inter_pp_c(A, B, <<O, dist(O, A)>>), LAMBDA P1, P2 :
    cond(lt(sqdist(A, P1), sqdist(A, P2)), P2, P1))

amidp_opp(B, C, A) == second_meet_pp_c(A, incenter(A, B, C), circumcenter(A, B, C))

amidp_same(B, C, A) ==
  Bind(circumcenter(A, B, C), LAMBDA O : second_meet_pp_c(amidp_opp(B, C, A), O, O))

\* the signed distance of P from the side whose line is l, on the far side
\* of which lies the opposite vertex when opp holds
SignedDist(P, l, g, opp) ==
  Bind(dist(P, inter_ll(l, g)), LAMBDA d : cond(opp, SNeg(d), d))

PerpThrough(P, X, Y) == pp2sif(P, PAdd(P, rotate_counterclockwise_90(PSub(X, Y))))

to_trilinear(P, A, B, C) ==
  <<SignedDist(P, pp2sif(B, C), PerpThrough(P, C, B), opp_sides(P, A, B, C)),
    SignedDist(P, pp2sif(C, A), PerpThrough(P, A, C), opp_sides(P, B, C, A)),
    SignedDist(P, pp2sif(A, B), PerpThrough(P, B, A), opp_sides(P, C, A, B))>>

\* the source builds 1 / x before cond chooses
invert_or_zero(x) == cond(lt(abs(x), Eps5), const(0), SDiv(const(1), x))

isogonal(P, A, B, C) ==
  Triple(to_trilinear(P, A, B, C), LAMBDA x, y, z :
    trilinear(A, B, C, invert_or_zero(x), invert_or_zero(y), invert_or_zero(z)))

isotomic(P, A, B, C) ==
  Triple(side_lengths(A, B, C), LAMBDA a, b, c :
    Triple(to_trilinear(P, A, B, C), LAMBDA x, y, z :
      trilinear(A, B, C, SMul(SSq(a), invert_or_zero(x)), SMul(SSq(b), invert_or_zero(y)),
                SMul(SSq(c), invert_or_zero(z)))))

(***************************************************************************)
(* Utilities                                                               *)
(***************************************************************************)
LookupPtsDefaulting(st, ps) ==
  Ok([i \in DOMAIN ps |->
        IF ps[i] \in DOMAIN st.name2pt THEN st.name2pt[ps[i]] ELSE get_point(Zero, Zero)])

lookup_pts(st, ps) ==
  IF \A i \in DOMAIN ps : ps[i] \in DOMAIN st.name2pt
  THEN Ok([i \in DOMAIN ps |-> st.name2pt[ps[i]]])
  ELSE Err("KeyError")

\* the point M that the two bisector lines of the angle ABC are built from
BisectorM(A, B, C) == midp(PAdd(B, smul(PSub(A, B), SDiv(dist(B, C), dist(B, A)))), C)

\* the two points of the line l = [pred, points]
line2twoPts(st, l) ==
  IF l.pred = "connecting" THEN lookup_pts(st, l.points)
  ELSE IF l.pred = "paraAt" THEN
    Try(Unpack(lookup_pts(st, l.points), 3), LAMBDA v :
      Ok(<<v[1], PSub(PAdd(v[1], v[3]), v[2])>>))
  ELSE IF l.pred = "perpAt" THEN
    Try(Unpack(lookup_pts(st, l.points), 3), LAMBDA v :
      Ok(<<v[1], PAdd(v[1], rotate_counterclockwise_90(PSub(v[2], v[3])))>>))
  ELSE IF l.pred = "mediator" THEN
    Try(Unpack(lookup_pts(st, l.points), 2), LAMBDA v :
      Bind(midp(v[1], v[2]), LAMBDA M :
        Ok(<<M, PAdd(M, rotate_counterclockwise_90(PSub(v[1], v[2])))>>)))
  ELSE IF l.pred = "ibisector" THEN
    Try(Unpack(lookup_pts(st, l.points), 3), LAMBDA v :
      Ok(<<v[2], BisectorM(v[1], v[2], v[3])>>))
  ELSE IF l.pred = "ebisector" THEN
    Try(Unpack(lookup_pts(st, l.points), 3), LAMBDA v :
      Ok(<<v[2], PAdd(v[2], rotate_counterclockwise_90(PSub(BisectorM(v[1], v[2], v[3]),
                                                             v[2])))>>))
  ELSE IF l.pred = "eqoangle" THEN
    \* the names A, P, Q, R of the segments it appends are not defined
    Try(Unpack(lookup_pts(st, l.points), 5), LAMBDA v : Err("NameError"))
  ELSE Err("RuntimeError")

line2sif(st, l) ==
  Try(Unpack(line2twoPts(st, l), 2), LAMBDA v : Ok(pp2sif(v[1], v[2])))

\* the circle circ = [pred, points] as <<center, radius>>
circ2nf(st, circ) ==
  IF circ.pred = "c3" THEN
    Try(Unpack(lookup_pts(st, circ.points), 3), LAMBDA v :
      Bind(circumcenter(v[1], v[2], v[3]), LAMBDA O : Ok(<<O, dist(O, v[1])>>)))
  ELSE IF circ.pred = "coa" THEN
    Try(Unpack(lookup_pts(st, circ.points), 2), LAMBDA v : Ok(<<v[1], dist(v[1], v[2])>>))
  ELSE IF circ.pred = "cong" THEN
    Try(Unpack(lookup_pts(st, circ.points), 3), LAMBDA v : Ok(<<v[1], dist(v[2], v[3])>>))
  ELSE IF circ.pred = "diam" THEN
    \* the radius is computed by a function dist that is not defined
    Try(Unpack(lookup_pts(st, circ.points), 2), LAMBDA v : Err("NameError"))
  ELSE Err("RuntimeError")

\* process_rs with the comparisons of closerTo and furtherFrom exchanged
ProcessRsTiesExchanged(st, P1, P2, root_select) ==
  IF root_select.pred = "closerTo" THEN
    Try(Unpack(lookup_pts(st, root_select.vars), 1), LAMBDA u :
      Ok(cond(lt(sqdist(P1, u[1]), sqdist(P2, u[1])), P1, P2)))
  ELSE IF root_select.pred = "furtherFrom" THEN
    Try(Unpack(lookup_pts(st, root_select.vars), 1), LAMBDA u :
      Ok(cond(lte(sqdist(P2, u[1]), sqdist(P1, u[1])), P1, P2)))
  ELSE Err("NotImplementedError")

ProcessRsArbitraryFirst(st, P1, P2, root_select) ==
  IF root_select.pred = "arbitrary" THEN Ok(P1) ELSE Err("NotImplementedError")

\* [pt] = lookup_pts(rs_args[0]); a, b = line2twoPts(rs_args[1])
SideArgs(st, rs_args, F(_, _, _)) ==
  IF Len(rs_args) < 1 THEN Err("IndexError")
  ELSE Try(Unpack(lookup_pts(st, <<rs_args[1]>>), 1), LAMBDA u :
         IF Len(rs_args) < 2 THEN Err("IndexError")
         ELSE Try(Unpack(line2twoPts(st, rs_args[2]), 2), LAMBDA ab :
                F(u[1], ab[1], ab[2])))

\* root_select = [pred, vars]
process_rs(st, P1, P2, root_select) ==
  IF root_select.pred = "neq" THEN
    Try(Unpack(lookup_pts(st, root_select.vars), 1), LAMBDA u :
      Ok(cond(pt_neq(P1, u[1]), P1, P2)))
  ELSE IF root_select.pred = "closerTo" THEN
    Try(Unpack(lookup_pts(st, root_select.vars), 1), LAMBDA u :
      Ok(cond(lte(sqdist(P1, u[1]), sqdist(P2, u[1])), P1, P2)))
  ELSE IF root_select.pred = "furtherFrom" THEN
    Try(Unpack(lookup_pts(st, root_select.vars), 1), LAMBDA u :
      Ok(cond(lt(sqdist(P2, u[1]), sqdist(P1, u[1])), P1, P2)))
  ELSE IF root_select.pred = "oppSides" THEN
    SideArgs(st, root_select.vars, LAMBDA pt, a, b : Ok(cond(opp_sides(P1, pt, a, b), P1, P2)))
  ELSE IF root_select.pred = "sameSide" THEN
    SideArgs(st, root_select.vars, LAMBDA pt, a, b : Ok(cond(same_side(P1, pt, a, b), P1, P2)))
  ELSE IF root_select.pred = "arbitrary" THEN Ok(P2)
  ELSE Err("NotImplementedError")

\* the state st1 in which the circle is appended, and the root chosen there
InterLcSelect(st1, r) ==
  [st |-> IF r.err # "" THEN Raise(st1, r.err) ELSE st1, val |-> r.val]

\* l is <<m, b, p1, p2>>, c is <<center, radius>>; the result is the state
\* with the circle appended and the chosen root
inter_lc(st, l, c, root_select) ==
  Bind2(inter_pp_c(l[3], l[4], c), [st EXCEPT !.circles = Append(@, c)], LAMBDA I, st1 :
    InterLcSelect(st1, process_rs(st1, I[1], I[2], root_select)))

inter_cc(st, cnf1, cnf2, root_select) ==
  Bind(inter_lc(st, radical_axis(cnf1, cnf2), cnf1, root_select), LAMBDA result :
    IF result.st.err # "" THEN result
    ELSE [st |-> [result.st EXCEPT !.circles = Append(Append(@, cnf1), cnf2)],
          val |-> result.val])

make_lc_intersect(st, name, l, c) ==
  Bind(PAdd(rotate_counterclockwise_90(PSub(l[3], l[4])), c[1]), LAMBDA Operp :
    Bind(dist(c[1], inter_ll(l, pp2sif(c[1], Operp))), LAMBDA d :
      register_loss(st, "interLC_" \o name,
                    cond(lt(dist(c[1], Operp), Eps6) \/ lt(dist(l[3], l[4]), Eps6),
                         const(0), cond(lt(c[2], d), d, const(0))),
                    Rat(1, 10))))

(***************************************************************************)
(* Sample                                                                  *)
(***************************************************************************)
sample_uniform(st, ps) ==
  IF Len(ps) # 1 THEN Raise(st, "ValueError")
  ELSE register_pt(st, ps[1], get_point(mkvar(ps[1] \o "x"), mkvar(ps[1] \o "y")))

\* the vertex that follows A and B: B + (X - B) * s * (1 + scale) / |X - B|
\* with X the turn of A about B by -angle
PolygonNext(A, B, s, angle_i, scale_i) ==
  Bind(PAdd(B, rotate_counterclockwise(SNeg(angle_i), PSub(A, B))), LAMBDA X :
    simplify(PAdd(B, smul(PSub(X, B), SDiv(SMul(s, SAdd(const(1), scale_i)), dist(X, B))))))

\* the loop of sample_polygon: Ps grows until it has n + 1 vertices
RECURSIVE PolygonPs(_, _, _, _)
PolygonPs(Ps, angles, scales, n) ==
  IF Len(Ps) > n THEN Ps
  ELSE PolygonPs(Append(Ps, PolygonNext(Ps[Len(Ps) - 1], Ps[Len(Ps)], dist(Ps[1], Ps[2]),
                                        angles[Len(Ps)], scales[Len(Ps)])),
                 angles, scales, n)

RECURSIVE RegisterAll(_, _, _, _)
RegisterAll(st, ps, Ps, i) ==
  IF i > Len(ps) THEN st
  ELSE RegisterAll(register_pt(st, ps[i], Ps[i]), ps, Ps, i + 1)

\* the losses, segments and points sample_polygon registers for vertices Ps
PolygonRegister(st, ps, Ps, angles, n) ==
  RegisterAll(
    [register_loss(
       register_loss(
         register_loss(st, "polygon-angle-sum",
                       SSub(sum(angles), SMul(Pi, const(n - 2))), Rat(1, 10)),
         "polygon-first-eq-last", dist(Ps[1], Ps[n + 1]), Rat(1, 100)),
       "polygon-first-angle-eq-sampled",
       SSub(angles[1], angle(Ps[Len(Ps)], Ps[1], Ps[2])), Rat(1, 100))
     EXCEPT !.segments = @ \o [i \in 1..n |-> <<Ps[i], Ps[(i % n) + 1]>>]],
    ps, Ps, 1)

PolygonAngles(n, multiplicand) ==
  [i \in 1..n |->
     SMul(multiplicand, tanh(SMul(Rat(1, 5), mkvar("polygon_angle_zs_" \o ToString(i - 1)))))]

PolygonScales(n) ==
  [i \in 1..n |->
     SMul(Rat(1, 2), tanh(SMul(Rat(1, 5), mkvar("polygon_scale_zs_" \o ToString(i - 1)))))]

sample_polygon(st, ps) ==
  IF Len(ps) = 0 THEN Raise(st, "ZeroDivisionError")
  ELSE Bind2(PolygonAngles(Len(ps), SAdd(SMul(Rat(Len(ps) - 2, Len(ps)), Pi),
                                         SDiv(Pi, const(3)))),
             PolygonScales(Len(ps)), LAMBDA angles, scales :
         PolygonRegister(st, ps,
                         PolygonPs(<<get_point(const(-2), const(0)),
                                     get_point(const(2), const(0))>>,
                                   angles, scales, Len(ps)),
                         angles, Len(ps)))

\* Shuffle if the isosceles vertex was not C
TriangleShuffle(ps, iso, right, A, B, C) ==
  IF iso = ps[2] \/ right = ps[2] THEN <<B, A, C>>
  ELSE IF iso = ps[3] \/ right = ps[3] THEN <<C, B, A>>
  ELSE <<A, B, C>>

TriangleAy(Ax, right, acute, equi) ==
  IF right # None THEN sqrt(SSub(const(4), SSq(Ax)))
  ELSE IF equi THEN SMul(const(2), sqrt(const(3)))
  ELSE SAdd(IF acute THEN Rat(11, 10) ELSE Rat(2, 5), SMul(const(3), sigmoid(mkvar("tri"))))

TriangleRegister(st, ps, A, B, C) ==
  [register_pt(register_pt(register_pt(st, ps[1], A), ps[2], B), ps[3], C)
     EXCEPT !.segments = @ \o <<<<A, B>>, <<B, C>>, <<C, A>>>>]

sample_triangle(st, ps, iso, right, acute, equi) ==
  IF ~(Truthy(iso) \/ Truthy(right) \/ acute \/ equi) THEN sample_polygon(st, ps)
  ELSE IF Len(ps) # 3 THEN Raise(st, "ValueError")
  ELSE Bind(IF iso # None \/ equi THEN const(0) ELSE mkvar("tri_x"), LAMBDA Ax :
         Triple(TriangleShuffle(ps, iso, right,
                                get_point(Ax, TriangleAy(Ax, right, acute, equi)),
                                get_point(const(-2), const(0)),
                                get_point(const(2), const(0))),
                LAMBDA A, B, C : TriangleRegister(st, ps, A, B, C)))

\* i = [kind, sampler, points, args]; the samplers that take the vertex
\* read it from a name, args, that is not defined (s_args holds it)
sample(st, i) ==
  IF i.sampler = "acuteIsoTri" THEN Raise(st, "NameError")
  ELSE IF i.sampler = "acuteTri" THEN sample_triangle(st, i.points, None, None, TRUE, FALSE)
  ELSE IF i.sampler = "equiTri" THEN sample_triangle(st, i.points, None, None, FALSE, TRUE)
  ELSE IF i.sampler = "isoTri" THEN Raise(st, "NameError")
  ELSE IF i.sampler = "polygon" THEN sample_polygon(st, i.points)
  ELSE IF i.sampler = "rightTri" THEN Raise(st, "NameError")
  ELSE IF i.sampler = "triangle" THEN sample_triangle(st, i.points, None, None, FALSE, FALSE)
  ELSE IF i.sampler = "uniform" THEN sample_uniform(st, i.points)
  ELSE Raise(st, "NotImplementedError")

(***************************************************************************)
(* Compute                                                                 *)
(***************************************************************************)
\* compute_midp starting the segment list anew
ComputeMidpOverwriting(st, m, ps) ==
  TrySt(st, Unpack(lookup_pts(st, ps), 2), LAMBDA v :
    [register_pt(st, m, midp(v[1], v[2])) EXCEPT !.segments = <<<<v[1], v[2]>>>>])

compute_midp(st, m, ps) ==
  TrySt(st, Unpack(lookup_pts(st, ps), 2), LAMBDA v :
    [register_pt(st, m, midp(v[1], v[2])) EXCEPT !.segments = Append(@, <<v[1], v[2]>>)])

compute_midp_from(st, p, ps) ==
  TrySt(st, Unpack(lookup_pts(st, ps), 2), LAMBDA v :
    Bind(midp_from(v[1], v[2]), LAMBDA P :
      [register_pt(st, p, P) EXCEPT !.segments = Append(@, <<P, v[2]>>)]))

compute_amidp_opp(st, p, ps) ==
  TrySt(st, Unpack(lookup_pts(st, ps), 3), LAMBDA v :
    register_pt(st, p, amidp_opp(v[1], v[2], v[3])))

compute_amidp_same(st, p, ps) ==
  TrySt(st, Unpack(lookup_pts(st, ps), 3), LAMBDA v :
    register_pt(st, p, amidp_same(v[1], v[2], v[3])))

compute_circumcenter(st, o, ps) ==
  TrySt(st, Unpack(lookup_pts(st, ps), 3), LAMBDA v :
    Bind(circumcenter(v[1], v[2], v[3]), LAMBDA O :
      [register_pt(st, o, O) EXCEPT !.circles = Append(@, <<O, dist(O, v[1])>>)]))

compute_orthocenter(st, h, ps) ==
  TrySt(st, Unpack(lookup_pts(st, ps), 3), LAMBDA v :
    register_pt(st, h, orthocenter(v[1], v[2], v[3])))

compute_centroid(st, g, ps) ==
  TrySt(st, Unpack(lookup_pts(st, ps), 3), LAMBDA v :
    register_pt(st, g, centroid(v[1], v[2], v[3])))

compute_incenter(st, i, ps) ==
  TrySt(st, Unpack(lookup_pts(st, ps), 3), LAMBDA v :
    Bind(incenter(v[1], v[2], v[3]), LAMBDA I :
      [register_pt(st, i, I) EXCEPT !.circles = Append(@, <<I, inradius(v[1], v[2], v[3])>>)]))

compute_excenter(st, i, ps) ==
  TrySt(st, Unpack(lookup_pts(st, ps), 3), LAMBDA v :
    Bind(excenter(v[1], v[2], v[3]), LAMBDA I :
      [register_pt(st, i, I) EXCEPT !.circles = Append(@, <<I, exradius(v[1], v[2], v[3])>>)]))

compute_inter_ll(st, p, l1, l2) ==
  TrySt(st, line2sif(st, l1), LAMBDA sif1 :
    TrySt(st, line2sif(st, l2), LAMBDA sif2 :
      register_pt(st, p, inter_ll(sif1, sif2))))

\* the root registered without the loss of make_lc_intersect
RegisterRootWithoutLoss(r, p, l, c) ==
  IF r.st.err # "" THEN r.st ELSE register_pt(r.st, p, r.val)

\* r is what inter_lc or inter_cc returned for the line l and the circle c
RegisterRoot(r, p, l, c) ==
  IF r.st.err # "" THEN r.st ELSE register_pt(make_lc_intersect(r.st, p, l, c), p, r.val)

compute_inter_lc(st, p, l, c, root_select) ==
  TrySt(st, line2sif(st, l), LAMBDA l_sif :
    TrySt(st, circ2nf(st, c), LAMBDA cnf :
      RegisterRoot(inter_lc(st, l_sif, cnf, root_select), p, l_sif, cnf)))

compute_inter_cc(st, p, c1, c2, root_select) ==
  TrySt(st, circ2nf(st, c1), LAMBDA cnf1 :
    TrySt(st, circ2nf(st, c2), LAMBDA cnf2 :
      RegisterRoot(inter_cc(st, cnf1, cnf2, root_select), p, radical_axis(cnf1, cnf2), cnf1)))

compute_mixtilinear_incenter(st, i, ps) ==
  TrySt(st, Unpack(lookup_pts(st, ps), 3), LAMBDA v :
    Bind(mixtilinear_incenter(v[1], v[2], v[3]), LAMBDA I :
      [register_pt(st, i, I)
         EXCEPT !.circles = Append(@, <<I, mixtilinear_inradius(v[1], v[2], v[3])>>)]))

compute_isogonal(st, y, ps) ==
  TrySt(st, Unpack(lookup_pts(st, ps), 4), LAMBDA v :
    register_pt(st, y, isogonal(v[1], v[2], v[3], v[4])))

compute_isotomic(st, y, ps) ==
  TrySt(st, Unpack(lookup_pts(st, ps), 4), LAMBDA v :
    register_pt(st, y, isotomic(v[1], v[2], v[3], v[4])))

compute_inverse(st, y, ps) ==
  TrySt(st, Unpack(lookup_pts(st, ps), 3), LAMBDA v :
    [register_pt(st, y, inverse(v[1], v[2], v[3]))
       EXCEPT !.circles = Append(@, <<v[2], dist(v[2], v[3])>>)])

\* harmonic_l_conj calls a function const that is not defined
compute_harmonic_l_conj(st, y, ps) ==
  TrySt(st, Unpack(lookup_pts(st, ps), 3), LAMBDA v : Raise(st, "NameError"))

\* the methods whose handler takes one argument after the point
OneArgMethods ==
  {"amidpOpp", "amidpSame", "centroid", "circumcenter", "excenter", "harmonicLConj",
   "incenter", "isogonal", "isotomic", "inverse", "midp", "midpFrom",
   "mixtilinearIncenter", "orthocenter"}

\* i = [kind, point, computation]; computation is <<method, args...>>, and
\* c_args[k] past its end is an IndexError
compute(st, i) ==
  Bind2(i.point, i.computation, LAMBDA p, c_args :
    IF \/ c_args[1] \in OneArgMethods /\ Len(c_args) < 2
       \/ c_args[1] = "interLL" /\ Len(c_args) < 3
       \/ c_args[1] \in {"interLC", "interCC"} /\ Len(c_args) < 4
      THEN Raise(st, "IndexError")
    ELSE IF c_args[1] = "amidpOpp" THEN compute_amidp_opp(st, p, c_args[2])
    ELSE IF c_args[1] = "amidpSame" THEN compute_amidp_same(st, p, c_args[2])
    ELSE IF c_args[1] = "centroid" THEN compute_centroid(st, p, c_args[2])
    ELSE IF c_args[1] = "circumcenter" THEN compute_circumcenter(st, p, c_args[2])
    ELSE IF c_args[1] = "excenter" THEN compute_excenter(st, p, c_args[2])
    ELSE IF c_args[1] = "harmonicLConj" THEN compute_harmonic_l_conj(st, p, c_args[2])
    ELSE IF c_args[1] = "incenter" THEN compute_incenter(st, p, c_args[2])
    ELSE IF c_args[1] = "interLL" THEN compute_inter_ll(st, p, c_args[2], c_args[3])
    ELSE IF c_args[1] = "interLC"
      THEN compute_inter_lc(st, p, c_args[2], c_args[3], c_args[4])
    ELSE IF c_args[1] = "interCC"
      THEN compute_inter_cc(st, p, c_args[2], c_args[3], c_args[4])
    ELSE IF c_args[1] = "isogonal" THEN compute_isogonal(st, p, c_args[2])
    ELSE IF c_args[1] = "isotomic" THEN compute_isotomic(st, p, c_args[2])
    ELSE IF c_args[1] = "inverse" THEN compute_inverse(st, p, c_args[2])
    ELSE IF c_args[1] = "midp" THEN compute_midp(st, p, c_args[2])
    ELSE IF c_args[1] = "midpFrom" THEN compute_midp_from(st, p, c_args[2])
    ELSE IF c_args[1] = "mixtilinearIncenter"
      THEN compute_mixtilinear_incenter(st, p, c_args[2])
    ELSE IF c_args[1] = "orthocenter" THEN compute_orthocenter(st, p, c_args[2])
    ELSE Raise(st, "NotImplementedError"))

(***************************************************************************)
(* Parameterize                                                            *)
(***************************************************************************)
parameterize_coords(st, p) == sample_uniform(st, <<p>>)

\* parameterize_on_seg without the regularization of its variable
ParameterizeOnSegUnregularized(st, p, ps) ==
  TrySt(st, Unpack(lookup_pts(st, ps), 2), LAMBDA v :
    Bind(SMul(Rat(1, 5), mkvar(p \o "_seg")), LAMBDA z :
      [register_pt(st, p, PAdd(v[1], smul(PSub(v[2], v[1]), sigmoid(z))))
         EXCEPT !.segments = Append(@, <<v[1], v[2]>>)]))

parameterize_on_seg(st, p, ps) ==
  TrySt(st, Unpack(lookup_pts(st, ps), 2), LAMBDA v :
    Bind(SMul(Rat(1, 5), mkvar(p \o "_seg")), LAMBDA z :
      [register_pt(register_loss(st, p \o "_seg_regularization", z, Rat(1, 10000)),
                   p, PAdd(v[1], smul(PSub(v[2], v[1]), sigmoid(z))))
         EXCEPT !.segments = Append(@, <<v[1], v[2]>>)]))

\* P1 + (P2 - P1) * sigmoid(z) for the far points P1 and P2 of the line
OnLinePoint(P1, P2, z) == PAdd(P1, smul(PSub(P2, P1), sigmoid(z)))

parameterize_on_line(st, p, l) ==
  TrySt(st, Unpack(line2twoPts(st, l), 2), LAMBDA v :
    Bind(SMul(Rat(1, 5), mkvar(p \o "_line")), LAMBDA z :
      [register_pt(register_loss(st, p \o "_line_regularization", z, Rat(1, 10000)),
                   p, OnLinePoint(PAdd(v[1], smul(PSub(v[1], v[2]), const(3))),
                                  PAdd(v[2], smul(PSub(v[2], v[1]), const(3))), z))
         EXCEPT !.segments = Append(@, <<v[1], v[2]>>)]))

parameterize_on_ray(st, p, ps) ==
  TrySt(st, Unpack(lookup_pts(st, ps), 2), LAMBDA v :
    Bind(PAdd(v[1], smul(PSub(v[2], v[1]), exp(mkvar(p \o "_ray")))), LAMBDA P :
      [register_pt(st, p, P) EXCEPT !.segments = @ \o <<<<v[1], v[2]>>, <<v[1], P>>>>]))

parameterize_on_ray_opp(st, p, ps) ==
  TrySt(st, Unpack(lookup_pts(st, ps), 2), LAMBDA v :
    Bind(PAdd(v[1], smul(PSub(v[1], v[2]), exp(mkvar(p \o "_ray_opp")))), LAMBDA P :
      [register_pt(st, p, P) EXCEPT !.segments = @ \o <<<<v[1], v[2]>>, <<v[1], P>>>>]))

parameterize_on_circ(st, p, circ) ==
  TrySt(st, circ2nf(st, circ), LAMBDA cnf :
    Bind(SMul(SMul(mkvar(p \o "_rot"), const(2)), Pi), LAMBDA theta :
      [register_pt(st, p, get_point(SAdd(cnf[1][1], SMul(cnf[2], cos(theta))),
                                    SAdd(cnf[1][2], SMul(cnf[2], sin(theta)))))
         EXCEPT !.circles = Append(@, <<cnf[1], cnf[2]>>)]))

parameterize_in_poly(st, p, ps) ==
  TrySt(st, lookup_pts(st, ps), LAMBDA Ps :
    Bind(softmax([k \in DOMAIN ps |-> mkvar(p \o "_in_poly_" \o ps[k])]), LAMBDA ws :
      register_pt(st, p, get_point(sum([k \in DOMAIN Ps |-> SMul(Ps[k][1], ws[k])]),
                                   sum([k \in DOMAIN Ps |-> SMul(Ps[k][2], ws[k])])))))

\* i = [kind, point, parameterization]; parameterization is <<method, args...>>
parameterize(st, i) ==
  Bind2(i.point, i.parameterization, LAMBDA p, p_args :
    IF p_args[1] = "coords" THEN parameterize_coords(st, p)
    ELSE IF p_args[1] \in {"inPoly", "onCirc", "onLine", "onRay", "onRayOpp", "onSeg"}
            /\ Len(p_args) < 2 THEN Raise(st, "IndexError")
    ELSE IF p_args[1] = "inPoly" THEN parameterize_in_poly(st, p, p_args[2])
    ELSE IF p_args[1] = "onCirc" THEN parameterize_on_circ(st, p, p_args[2])
    ELSE IF p_args[1] = "onLine" THEN parameterize_on_line(st, p, p_args[2])
    ELSE IF p_args[1] = "onRay" THEN parameterize_on_ray(st, p, p_args[2])
    ELSE IF p_args[1] = "onRayOpp" THEN parameterize_on_ray_opp(st, p, p_args[2])
    ELSE IF p_args[1] = "onSeg" THEN parameterize_on_seg(st, p, p_args[2])
    ELSE Raise(st, "NotImplementedError"))

(***************************************************************************)
(* Assert                                                                  *)
(***************************************************************************)
Tail2(s) == SubSeq(s, 2, Len(s))

CombinationsFirstOnly(s, r) == IF Len(s) < r THEN <<>> ELSE <<SubSeq(s, 1, r)>>

\* itertools.combinations(s, r): the r-element subsequences of s, as a list,
\* those with the first element of s before those without it
RECURSIVE combinations(_, _)
combinations(s, r) ==
  IF r = 0 THEN <<<<>>>>
  ELSE IF Len(s) < r THEN <<>>
  ELSE Bind(combinations(Tail2(s), r - 1), LAMBDA withHead :
         [k \in DOMAIN withHead |-> <<s[1]>> \o withHead[k]] \o combinations(Tail2(s), r))

Vals(st, vs) == [st |-> st, val |-> vs]

Fail(st, e) == Vals(Raise(st, e), <<>>)

PredsOf4 ==
  {"amidpOpp", "amidpSame", "circumcenter", "cong", "distLt", "distGt", "foot", "ibisector",
   "incenter", "oppSides", "orthocenter", "reflectPL", "sameSide"}

Preds ==
  PredsOf4 \cup {"between", "coll", "contri", "cycl", "eqangle", "eqoangle", "eqratio",
                 "insidePolygon", "interLL", "isogonal", "midp", "onRay", "onSeg", "perp",
                 "para", "simtri"}

\* the six segments of the triangles ABC and PQR
TwoTriangles(P) ==
  <<<<P[1], P[2]>>, <<P[2], P[3]>>, <<P[3], P[1]>>,
    <<P[4], P[5]>>, <<P[5], P[6]>>, <<P[6], P[4]>>>>

\* the three angle residuals of the triangles ABC and PQR
TriangleAngles(P) ==
  <<eqangle6_diff(P[1], P[2], P[3], P[4], P[5], P[6]),
    eqangle6_diff(P[2], P[3], P[1], P[5], P[6], P[4]),
    eqangle6_diff(P[3], P[1], P[2], P[6], P[4], P[5])>>

\* the residuals of pred over the looked-up points P, with the state after
\* the circles and segments the predicate appends; unpacking P into the
\* wrong number of names is a ValueError, passing it as the wrong number of
\* arguments a TypeError
AssertionValsAt(st, pred, P, n) ==
  IF pred \in PredsOf4 /\ n # 4 THEN Fail(st, "ValueError")
  ELSE IF pred \in {"contri", "eqoangle", "simtri"} /\ n # 6 THEN Fail(st, "ValueError")
  ELSE IF pred \in {"interLL", "isogonal"} /\ n # 5 THEN Fail(st, "ValueError")
  ELSE IF pred = "midp" /\ n # 3 THEN Fail(st, "ValueError")
  ELSE IF pred \in {"between", "onRay", "onSeg"} /\ n # 3 THEN Fail(st, "TypeError")
  ELSE IF pred \in {"perp", "para"} /\ n # 4 THEN Fail(st, "TypeError")
  ELSE IF pred \in {"eqangle", "eqratio"} /\ n # 8 THEN Fail(st, "TypeError")
  ELSE IF pred = "insidePolygon" /\ n < 1 THEN Fail(st, "TypeError")
  ELSE IF pred = "cycl" /\ ~(n > 3) THEN Fail(st, "AssertionError")
  ELSE IF pred = "amidpOpp" THEN Vals(st, <<dist(P[1], amidp_opp(P[2], P[3], P[4]))>>)
  ELSE IF pred = "amidpSame" THEN Vals(st, <<dist(P[1], amidp_same(P[2], P[3], P[4]))>>)
  ELSE IF pred = "between" THEN Vals(st, between_gap(P[1], P[2], P[3]))
  ELSE IF pred = "circumcenter" THEN
    Vals([st EXCEPT !.circles = Append(@, <<P[1], dist(P[1], P[2])>>)],
         <<dist(P[1], circumcenter(P[2], P[3], P[4]))>>)
  ELSE IF pred = "coll" THEN
    Bind(combinations(P, 3), LAMBDA cs :
      Vals([st EXCEPT !.segments = @ \o [i \in 1..(n - 1) |-> <<P[i], P[i + 1]>>]],
           [k \in DOMAIN cs |-> coll_phi(cs[k][1], cs[k][2], cs[k][3])]))
  ELSE IF pred = "cong" THEN
    Vals(IF P[1] \in {P[3], P[4]}
           THEN [st EXCEPT !.circles = Append(@, <<P[1], dist(P[1], P[2])>>)]
         ELSE IF P[2] \in {P[3], P[4]}
           THEN [st EXCEPT !.circles = Append(@, <<P[2], dist(P[1], P[2])>>)]
         ELSE st,
         <<cong_diff(P[1], P[2], P[3], P[4])>>)
  ELSE IF pred = "contri" THEN
    Vals([st EXCEPT !.segments = @ \o TwoTriangles(P)],
         TriangleAngles(P) \o <<cong_diff(P[1], P[2], P[4], P[5]),
                                 cong_diff(P[1], P[3], P[4], P[6]),
                                 cong_diff(P[2], P[3], P[5], P[6])>>)
  ELSE IF pred = "cycl" THEN
    Bind2(circumcenter(P[1], P[2], P[3]), combinations(P, 4), LAMBDA O, cs :
      Vals([st EXCEPT !.circles = Append(@, <<O, dist(O, P[1])>>)],
           [k \in DOMAIN cs |->
              eqangle6_diff(cs[k][1], cs[k][2], cs[k][4], cs[k][1], cs[k][3], cs[k][4])]))
  \* the second distance is computed by a function dist that is not defined
  ELSE IF pred = "distLt" THEN Fail(st, "NameError")
  ELSE IF pred = "distGt" THEN
    Vals(st, <<max(const(0), SSub(dist(P[3], P[4]), dist(P[1], P[2])))>>)
  ELSE IF pred = "eqangle" THEN
    Vals(st, <<eqangle8_diff(P[1], P[2], P[3], P[4], P[5], P[6], P[7], P[8])>>)
  ELSE IF pred = "eqoangle" THEN
    Vals(st, <<SSub(angle(P[1], P[2], P[3]), angle(P[4], P[5], P[6]))>>)
  \* eqratio_diff calls a function dist that is not defined
  ELSE IF pred = "eqratio" THEN Fail(st, "NameError")
  ELSE IF pred = "foot" THEN
    Vals(st, <<coll_phi(P[1], P[3], P[4]), perp_phi(P[1], P[2], P[3], P[4])>>)
  ELSE IF pred = "ibisector" THEN
    Vals([st EXCEPT !.segments = @ \o <<<<P[2], P[3]>>, <<P[3], P[1]>>, <<P[3], P[4]>>>>],
         <<eqangle8_diff(P[2], P[3], P[3], P[1], P[1], P[3], P[3], P[4])>>)
  ELSE IF pred = "incenter" THEN Vals(st, <<dist(P[1], incenter(P[2], P[3], P[4]))>>)
  ELSE IF pred = "insidePolygon" THEN Vals(st, in_poly_phis(P[1], Tail2(P)))
  ELSE IF pred = "interLL" THEN
    Vals(st, <<coll_phi(P[1], P[2], P[3]), coll_phi(P[1], P[4], P[5])>>)
  ELSE IF pred = "isogonal" THEN
    Vals(st, <<dist(P[1], isogonal(P[2], P[3], P[4], P[5]))>>)
  ELSE IF pred = "midp" THEN Vals(st, <<dist(P[1], midp(P[2], P[3]))>>)
  ELSE IF pred = "onRay" THEN
    Vals(st, <<coll_phi(P[1], P[2], P[3])>> \o onray_gap(P[1], P[2], P[3]))
  ELSE IF pred = "onSeg" THEN
    Vals(st, <<coll_phi(P[1], P[2], P[3])>> \o between_gap(P[1], P[2], P[3]))
  ELSE IF pred = "oppSides" THEN
    Vals(st, <<max(const(0), side_score_prod(P[1], P[2], P[3], P[4]))>>)
  ELSE IF pred = "orthocenter" THEN
    Vals(st, <<dist(P[1], orthocenter(P[2], P[3], P[4]))>>)
  ELSE IF pred = "perp" THEN Vals(st, <<perp_phi(P[1], P[2], P[3], P[4])>>)
  ELSE IF pred = "para" THEN Vals(st, <<para_phi(P[1], P[2], P[3], P[4])>>)
  ELSE IF pred = "reflectPL" THEN
    Vals(st, <<perp_phi(P[1], P[2], P[3], P[4]), cong_diff(P[3], P[1], P[3], P[2])>>)
  ELSE IF pred = "sameSide" THEN
    Vals(st, <<max(const(0), SNeg(side_score_prod(P[1], P[2], P[3], P[4])))>>)
  ELSE \* simtri
    Vals([st EXCEPT !.segments = @ \o TwoTriangles(P)], TriangleAngles(P))

\* every branch of assertion_vals starts by looking its points up
assertion_vals(st, pred, ps) ==
  IF pred \notin Preds THEN Fail(st, "NotImplementedError")
  ELSE Bind(lookup_pts(st, ps), LAMBDA r :
         IF r.err # "" THEN Fail(st, r.err) ELSE AssertionValsAt(st, pred, r.val, Len(ps)))

\* '_'.join(ps) from index i on
RECURSIVE JoinFrom(_, _)
JoinFrom(ps, i) ==
  IF i > Len(ps) THEN ""
  ELSE (IF i > 1 THEN "_" ELSE "") \o ps[i] \o JoinFrom(ps, i + 1)

join(ps) == JoinFrom(ps, 1)

\* every residual under the bare label
LabelAlwaysBare(a_str, n, i) == a_str

\* the label of residual i (from 0) of the n residuals registered under a_str
Label(a_str, n, i) == IF n = 1 THEN a_str ELSE a_str \o "_" \o ToString(i)

RECURSIVE RegisterLosses(_, _, _, _, _)
RegisterLosses(st, a_str, vals, weight, k) ==
  IF k > Len(vals) THEN st
  ELSE RegisterLosses(register_loss(st, Label(a_str, Len(vals), k - 1), vals[k], weight),
                      a_str, vals, weight, k + 1)

RECURSIVE RegisterNdgs(_, _, _, _, _)
RegisterNdgs(st, a_str, vals, weight, k) ==
  IF k > Len(vals) THEN st
  ELSE RegisterNdgs(register_ndg(st, Label(a_str, Len(vals), k - 1), vals[k], weight),
                    a_str, vals, weight, k + 1)

RECURSIVE RegisterGoals(_, _, _, _)
RegisterGoals(st, g_str, vals, k) ==
  IF k > Len(vals) THEN st
  ELSE RegisterGoals(register_goal(st, Label(g_str, Len(vals), k - 1), vals[k]),
                     g_str, vals, k + 1)

\* assertion = [kind, constraint]; constraint = [pred, points, negate]
add(st, assertion) ==
  IF assertion.constraint.negate THEN Raise(st, "RuntimeError")
  ELSE Bind(assertion_vals(st, assertion.constraint.pred, assertion.constraint.points),
            LAMBDA r :
              IF r.st.err # "" THEN r.st
              ELSE IF Len(r.val) = 0 THEN Raise(r.st, "ZeroDivisionError")
              ELSE RegisterLosses(r.st, assertion.constraint.pred \o "_"
                                          \o join(assertion.constraint.points),
                                  r.val, Rat(1, Len(r.val)), 1))

AddNDGIntoLosses(st, ndg) == add(st, [ndg EXCEPT !.constraint.negate = FALSE])

addNDG(st, ndg) ==
  Bind(assertion_vals(st, ndg.constraint.pred, ndg.constraint.points), LAMBDA r :
    IF r.st.err # "" THEN r.st
    ELSE IF Len(r.val) = 0 THEN Raise(r.st, "ZeroDivisionError")
    ELSE RegisterNdgs(r.st, "not_" \o ndg.constraint.pred \o "_" \o join(ndg.constraint.points),
                      r.val, Rat(1, Len(r.val)), 1))

confirm(st, goal) ==
  Bind(assertion_vals(st, goal.constraint.pred, goal.constraint.points), LAMBDA r :
    IF r.st.err # "" THEN r.st
    ELSE RegisterGoals(r.st,
                       (IF goal.constraint.negate THEN "not_" ELSE "")
                         \o goal.constraint.pred \o "_" \o join(goal.constraint.points),
                       r.val, 1))

(***************************************************************************)
(* The instructions of the frontend and the programs of the model          *)
(***************************************************************************)
Sample(sampler, points, args) ==
  [kind |-> "Sample", sampler |-> sampler, points |-> points, args |-> args]

Compute(point, computation) ==
  [kind |-> "Compute", point |-> point, computation |-> computation]

Parameterize(point, parameterization) ==
  [kind |-> "Parameterize", point |-> point, parameterization |-> parameterization]

Constraint(pred, points, negate) == [pred |-> pred, points |-> points, negate |-> negate]

AssertI(pred, points, negate) ==
  [kind |-> "Assert", constraint |-> Constraint(pred, points, negate)]

AssertNDG(pred, points) ==
  [kind |-> "AssertNDG", constraint |-> Constraint(pred, points, FALSE)]

Confirm(pred, points, negate) ==
  [kind |-> "Confirm", constraint |-> Constraint(pred, points, negate)]

Line(pred, points) == [pred |-> pred, points |-> points]

Circle(pred, points) == [pred |-> pred, points |-> points]

RootSelect(pred, rs_vars) == [pred |-> pred, vars |-> rs_vars]

Kinds == {"Sample", "Compute", "Parameterize", "Assert", "AssertNDG", "Confirm"}

\* the sampling prefixes of the programs
Setups ==
  {<<>>,
   <<Sample("acuteTri", <<"A", "B", "C">>, <<>>), Sample("uniform", <<"P">>, <<>>)>>,
   <<Sample("uniform", <<"A">>, <<>>), Sample("uniform", <<"B">>, <<>>),
     Sample("uniform", <<"C">>, <<>>), Sample("uniform", <<"P">>, <<>>)>>}

LineAB == Line("connecting", <<"A", "B">>)

CircCA == Circle("coa", <<"C", "A">>)

\* the instructions that follow a prefix; X is a name no instruction registers
TailInstrs ==
  {Sample("isoTri", <<"A", "B", "C">>, <<"A">>),
   Sample("isoTri", <<"A", "B", "C">>, <<"B">>),
   Sample("acuteIsoTri", <<"A", "B", "C">>, <<"C">>),
   Sample("rightTri", <<"A", "B", "C">>, <<"B">>),
   Sample("equiTri", <<"A", "B", "C">>, <<>>),
   Sample("triangle", <<"A", "B", "C">>, <<>>),
   Sample("polygon", <<"A", "B", "C", "P">>, <<>>),
   Sample("uniform", <<"Q">>, <<>>),
   Sample("spiral", <<"Q">>, <<>>),
   Compute("Q", <<"midp", <<"A", "B">>>>),
   Compute("Q", <<"midp", <<"A", "X">>>>),
   Compute("Q", <<"circumcenter", <<"A", "B", "C">>>>),
   Compute("Q", <<"reflect", <<"A", "B">>>>),
   Compute("Q", <<"interLL", LineAB, Line("perpAt", <<"P", "A", "C">>)>>),
   Compute("Q", <<"interLL", LineAB, Line("tangent", <<"P", "A">>)>>),
   Compute("Q", <<"interLC", LineAB, CircCA, RootSelect("neq", <<"A">>)>>),
   Compute("Q", <<"interLC", LineAB, CircCA, RootSelect("closerTo", <<"B">>)>>),
   Compute("Q", <<"interLC", LineAB, CircCA, RootSelect("arbitrary", <<>>)>>),
   Compute("Q", <<"interLC", LineAB, CircCA, RootSelect("oppSides", <<"P", LineAB>>)>>),
   Compute("Q", <<"interLC", LineAB, CircCA, RootSelect("leftmost", <<>>)>>),
   Compute("Q", <<"interLC", LineAB, CircCA, RootSelect("furtherFrom", <<"X">>)>>),
   Compute("Q", <<"interLC", LineAB, Circle("incircle", <<"A", "B", "C">>),
                  RootSelect("arbitrary", <<>>)>>),
   Compute("Q", <<"interLC", Line("connecting", <<"A", "X">>), CircCA,
                  RootSelect("arbitrary", <<>>)>>),
   Compute("Q", <<"interCC", CircCA, Circle("coa", <<"B", "A">>),
                  RootSelect("neq", <<"A">>)>>),
   Compute("Q", <<"interCC", CircCA, Circle("coa", <<"B", "A">>),
                  RootSelect("leftmost", <<>>)>>),
   Compute("Q", <<"interCC", CircCA, Circle("coa", <<"B", "A">>),
                  RootSelect("sameSide", <<"X", LineAB>>)>>),
   Parameterize("Q", <<"coords">>),
   Parameterize("Q", <<"onSeg", <<"A", "B">>>>),
   Parameterize("Q", <<"onSeg", <<"A", "X">>>>),
   Parameterize("Q", <<"onLine", LineAB>>),
   Parameterize("Q", <<"onRay", <<"A", "B">>>>),
   Parameterize("Q", <<"onRayOpp", <<"A", "B">>>>),
   Parameterize("Q", <<"onCirc", CircCA>>),
   Parameterize("Q", <<"inPoly", <<"A", "B", "C">>>>),
   Parameterize("Q", <<"onArc", <<"A", "B">>>>),
   AssertI("coll", <<"A", "B">>, FALSE),
   AssertI("coll", <<"A", "B", "C">>, FALSE),
   AssertI("coll", <<"A", "B", "C", "P">>, FALSE),
   AssertI("coll", <<"A", "X", "C">>, FALSE),
   AssertI("cycl", <<"A", "B", "C", "P">>, FALSE),
   AssertI("insidePolygon", <<"P">>, FALSE),
   AssertI("insidePolygon", <<"P", "A", "B", "C">>, FALSE),
   AssertI("foot", <<"P", "A", "B", "C">>, FALSE),
   AssertI("cong", <<"A", "B", "A", "C">>, FALSE),
   AssertI("perp", <<"A", "B", "C", "P">>, TRUE),
   AssertI("tangent", <<"A", "B", "C">>, FALSE),
   AssertNDG("coll", <<"A", "B">>),
   AssertNDG("coll", <<"A", "B", "C">>),
   AssertNDG("para", <<"A", "B", "C", "P">>),
   AssertNDG("para", <<"A", "B", "C", "X">>),
   AssertNDG("tangent", <<"A", "B", "C">>),
   Confirm("coll", <<"A", "B">>, FALSE),
   Confirm("cycl", <<"A", "B", "C", "P">>, FALSE),
   Confirm("onSeg", <<"P", "B", "C">>, TRUE),
   Confirm("perp", <<"A", "B", "X", "P">>, FALSE),
   Confirm("tangent", <<"A", "B", "C">>, FALSE),
   [kind |-> "Draw"]}

\* the sequences over S of length n or less
SeqsUpTo(S, n) == UNION {[1..k -> S] : k \in 0..n}

Programs == {setup \o tail : setup \in Setups, tail \in SeqsUpTo(TailInstrs, MaxTail)}

\* the stores of free variables: a variable that is not listed is 0
FreeVarStores ==
  {EmptyMap,
   [n \in {"Ax", "Ay", "Bx", "By", "Cx", "Cy", "Px", "Py", "Qx", "tri_x"} |->
      CASE n \in {"Ax", "Ay", "By"} -> const(-1)
        [] n \in {"Bx", "Cy", "Px", "Py"} -> const(1)
        [] n = "Cx" -> const(0)
        [] n = "Qx" -> Rat(1, 2)
        [] OTHER -> Rat(6, 5)]}

(***************************************************************************)
(* preprocess and process_instruction                                      *)
(***************************************************************************)
Init ==
  /\ instructions \in Programs
  /\ fv \in FreeVarStores
  /\ name2pt = EmptyMap
  /\ losses = EmptyMap
  /\ ndgs = EmptyMap
  /\ goals = EmptyMap
  /\ circles = <<>>
  /\ segments = <<>>
  /\ pc = 1
  /\ status = "running"
  /\ exc = ""
  /\ pass = 1
  /\ kin = <<>>
  /\ kout = <<>>

AtInstruction == status = "running" /\ pc <= Len(instructions)

LoopStepSkipping == pc + 2

LoopStep == pc + 1

\* the state st a handler leaves becomes the interpreter's: on an exception
\* preprocess is left at the instruction that raised it
Commit(st) ==
  /\ name2pt' = st.name2pt
  /\ losses' = st.losses
  /\ ndgs' = st.ndgs
  /\ goals' = st.goals
  /\ circles' = st.circles
  /\ segments' = st.segments
  /\ exc' = st.err
  /\ status' = IF st.err # "" THEN "raised" ELSE status
  /\ pc' = IF st.err # "" THEN pc ELSE LoopStep
  /\ UNCHANGED <<instructions, fv, pass, kin, kout>>

ProcessSample ==
  /\ AtInstruction
  /\ instructions[pc].kind = "Sample"
  /\ Commit(sample(CurState, instructions[pc]))

ProcessCompute ==
  /\ AtInstruction
  /\ instructions[pc].kind = "Compute"
  /\ Commit(compute(CurState, instructions[pc]))

ProcessParameterize ==
  /\ AtInstruction
  /\ instructions[pc].kind = "Parameterize"
  /\ Commit(parameterize(CurState, instructions[pc]))

ProcessAssert ==
  /\ AtInstruction
  /\ instructions[pc].kind = "Assert"
  /\ Commit(add(CurState, instructions[pc]))

ProcessAssertNDG ==
  /\ AtInstruction
  /\ instructions[pc].kind = "AssertNDG"
  /\ Commit(addNDG(CurState, instructions[pc]))

ProcessConfirm ==
  /\ AtInstruction
  /\ instructions[pc].kind = "Confirm"
  /\ Commit(confirm(CurState, instructions[pc]))

ProcessUnknown ==
  /\ AtInstruction
  /\ instructions[pc].kind \notin Kinds
  /\ Commit(Raise(CurState, "NotImplementedError"))

\* the loop of preprocess is over
PreprocessReturns ==
  /\ status = "running"
  /\ pc > Len(instructions)
  /\ status' = "done"
  /\ UNCHANGED <<instructions, fv, name2pt, losses, ndgs, goals, circles, segments,
                 pc, exc, pass, kin, kout>>

\* the caller runs preprocess once more on the same interpreter
PreprocessAgain ==
  /\ status = "done"
  /\ pass < MaxPasses
  /\ pass' = pass + 1
  /\ pc' = 1
  /\ status' = "running"
  /\ UNCHANGED <<instructions, fv, name2pt, losses, ndgs, goals, circles, segments,
                 exc, kin, kout>>

Next ==
  \/ ProcessSample
  \/ ProcessCompute
  \/ ProcessParameterize
  \/ ProcessAssert
  \/ ProcessAssertNDG
  \/ ProcessConfirm
  \/ ProcessUnknown
  \/ PreprocessReturns
  \/ PreprocessAgain

Spec == Init /\ [][Next]_vars

(***************************************************************************)
(* The kernel functions and the predicate evaluator applied on their own:  *)
(* kin is the call, name2pt the registry it finds, kout the list of the    *)
(* results so far                                                          *)
(***************************************************************************)
GridPts == {get_point(const(x), const(y)) : x \in 0..MaxCoord, y \in 0..MaxCoord}

\* the points of the grid in row order, from 0
GridPt(k) == get_point(const(k % (MaxCoord + 1)), const(k \div (MaxCoord + 1)))

GridSize == (MaxCoord + 1) * (MaxCoord + 1)

\* n points of the grid: the first is number s, each next one step further
Strided(s, step, n) == [k \in 1..n |-> GridPt((s + (k - 1) * step) % GridSize)]

PointNames == <<"A", "B", "C", "D", "E", "F", "G", "H">>

\* the registry in which the first names are bound to the points Ps
RegistryOf(Ps) ==
  [name \in {PointNames[k] : k \in DOMAIN Ps} |->
     Ps[CHOOSE k \in DOMAIN Ps : PointNames[k] = name]]

CircumcenterCalls == {[op |-> "circumcenter", Ps |-> <<A, B, C>>] : A, B, C \in GridPts}

\* coll over every triple and every quadruple of grid points
CollTripleCalls ==
  {[op |-> "assertion_vals", pred |-> "coll", Ps |-> <<A, B, C>>] : A, B, C \in GridPts}

CollQuadrupleCalls ==
  {[op |-> "assertion_vals", pred |-> "coll", Ps |-> <<A, B, C, D>>] : A, B, C, D \in GridPts}

\* coll and cycl over 0 to MaxArgs points
StridedCalls ==
  {[op |-> "assertion_vals", pred |-> pred, Ps |-> Strided(s, step, n)] :
     pred \in {"coll", "cycl"}, s \in 0..(GridSize - 1), step \in 1..(GridSize - 1),
     n \in 0..MaxArgs}

\* the root selections of the calls of process_rs
RootSelections ==
  {RootSelect("arbitrary", <<>>), RootSelect("neq", <<"A">>), RootSelect("closerTo", <<"A">>),
   RootSelect("furtherFrom", <<"B">>), RootSelect("oppSides", <<"C", LineAB>>),
   RootSelect("sameSide", <<"C", LineAB>>), RootSelect("leftmost", <<>>),
   RootSelect("closerTo", <<"X">>)}

ProcessRsCalls ==
  {[op |-> "process_rs", Ps |-> <<P1, P2>>, root_select |-> rs] :
     P1, P2 \in GridPts, rs \in RootSelections}

\* the radii of the circles of the calls of make_lc_intersect
Radii == {Rat(1, 2), const(1)}

\* make_lc_intersect for the line AB and the circle around O1 of radius r,
\* then for the same line and the circle around O2 of the same radius
MakeLcIntersectCalls ==
  {[op |-> "make_lc_intersect", Ps |-> <<A, B, O1, O2>>, r |-> r] :
     A \in {GridPt(0), GridPt(MaxCoord + 2)}, B \in GridPts, O1 \in GridPts, O2 \in GridPts,
     r \in Radii}

\* the thresholds of the calls of points_far_enough_away
MinDists == {Rat(1, 2), const(1), sqrt(const(2)), const(2)}

\* points_far_enough_away over a registry of 0 to MaxArgs grid points
PointsFarEnoughAwayCalls ==
  {[op |-> "points_far_enough_away", Ps |-> Strided(s, step, n), min_dist |-> m] :
     s \in 0..(GridSize - 1), step \in 1..(GridSize - 1), n \in 0..MaxArgs, m \in MinDists}

\* the arguments of the calls of invert_or_zero: 0, numbers on both sides of
\* 1e-5 and at it, of both signs, and numbers of ordinary size
InvertOrZeroArgs ==
  {Zero, Eps6, SNeg(Eps6), Rat(1, 200000), Eps5, SNeg(Eps5), Rat(1, 50000), Rat(-1, 50000),
   Rat(1, 2), const(1), const(-2), sqrt(const(2))}

InvertOrZeroCalls == {[op |-> "invert_or_zero", x |-> x] : x \in InvertOrZeroArgs}

\* process_rs finds the points A = (0, 0), B = (MaxCoord, 0) and C = (1, 1)
RsRegistry == <<GridPt(0), GridPt(MaxCoord), GridPt(MaxCoord + 2)>>

\* the centers of the circles of the calls of inter_lc: (0, 0), (1, 0), (1, 1)
InterLcCenters == {GridPt(0), GridPt(1), GridPt(MaxCoord + 2)}

\* inter_lc for the line through P1 and P2 and the circle around O
InterLcCalls ==
  {[op |-> "inter_lc", Ps |-> <<P1, P2, O>>, r |-> r, root_select |-> rs] :
     P1 \in GridPts, P2 \in GridPts, O \in InterLcCenters, r \in Radii, rs \in RootSelections}

KernelInit ==
  /\ \/ kin \in CircumcenterCalls
     \/ kin \in CollTripleCalls
     \/ kin \in CollQuadrupleCalls
     \/ kin \in StridedCalls
     \/ kin \in ProcessRsCalls
     \/ kin \in MakeLcIntersectCalls
     \/ kin \in PointsFarEnoughAwayCalls
     \/ kin \in InvertOrZeroCalls
     \/ kin \in InterLcCalls
  /\ kout = <<>>
  /\ name2pt = RegistryOf(IF kin.op \in {"assertion_vals", "points_far_enough_away"}
                                 THEN kin.Ps
                          ELSE IF kin.op \in {"process_rs", "inter_lc"} THEN RsRegistry
                          ELSE <<>>)
  /\ instructions = <<>>
  /\ fv = EmptyMap
  /\ losses = EmptyMap
  /\ ndgs = EmptyMap
  /\ goals = EmptyMap
  /\ circles = <<>>
  /\ segments = <<>>
  /\ pc = 1
  /\ status = "calling"
  /\ exc = ""
  /\ pass = 1

ApplyCircumcenter ==
  /\ status = "calling"
  /\ kin.op = "circumcenter"
  /\ kout' = <<circumcenter(kin.Ps[1], kin.Ps[2], kin.Ps[3])>>
  /\ status' = "returned"
  /\ UNCHANGED <<instructions, fv, name2pt, losses, ndgs, goals, circles, segments,
                 pc, exc, pass, kin>>

\* the residuals of the predicate over the names of the registry
AssertionValsReturns(r) ==
  /\ kout' = r.val
  /\ circles' = r.st.circles
  /\ segments' = r.st.segments
  /\ exc' = r.st.err
  /\ status' = IF r.st.err # "" THEN "raised" ELSE "returned"
  /\ UNCHANGED <<instructions, fv, name2pt, losses, ndgs, goals, pc, pass, kin>>

ApplyAssertionVals ==
  /\ status = "calling"
  /\ kin.op = "assertion_vals"
  /\ AssertionValsReturns(assertion_vals(CurState, kin.pred,
                                         SubSeq(PointNames, 1, Len(kin.Ps))))

ProcessRsReturns(r) ==
  /\ kout' = IF r.err # "" THEN kout ELSE Append(kout, r.val)
  /\ exc' = r.err
  /\ status' = IF r.err # "" THEN "raised" ELSE IF Len(kout) = 1 THEN "returned" ELSE status
  /\ UNCHANGED <<instructions, fv, name2pt, losses, ndgs, goals, circles, segments,
                 pc, pass, kin>>

\* process_rs on the two candidate roots, then on the same two swapped
ApplyProcessRs ==
  /\ status = "calling"
  /\ kin.op = "process_rs"
  /\ ProcessRsReturns(IF kout = <<>>
                        THEN process_rs(CurState, kin.Ps[1], kin.Ps[2], kin.root_select)
                        ELSE process_rs(CurState, kin.Ps[2], kin.Ps[1], kin.root_select))

\* the loss make_lc_intersect registers for the point Q
MakeLcIntersectReturns(st) ==
  /\ kout' = Append(kout, st.losses["interLC_Q"][1])
  /\ losses' = st.losses
  /\ status' = IF Len(kout) = 1 THEN "returned" ELSE status
  /\ UNCHANGED <<instructions, fv, name2pt, ndgs, goals, circles, segments, pc, exc, pass,
                 kin>>

\* make_lc_intersect with the first center, then with the second
ApplyMakeLcIntersect ==
  /\ status = "calling"
  /\ kin.op = "make_lc_intersect"
  /\ MakeLcIntersectReturns(
       make_lc_intersect(CurState, "Q", pp2sif(kin.Ps[1], kin.Ps[2]),
                         <<kin.Ps[IF kout = <<>> THEN 3 ELSE 4], kin.r>>))

\* points_far_enough_away with every pair at distance exactly min_dist
\* rejected
PointsFarEnoughAwayStrict(n2p, min_dist) ==
  Bind(combinations(SelectSeq(PointNames, LAMBDA n : n \in DOMAIN n2p), 2), LAMBDA pairs :
    \A k \in DOMAIN pairs :
      ~lte(dist(n2p[pairs[k][1]], n2p[pairs[k][2]]), min_dist))

\* False at the first pair of names, in the order of the registry, whose
\* points are closer than min_dist; True when there is none
points_far_enough_away(n2p, min_dist) ==
  Bind(combinations(SelectSeq(PointNames, LAMBDA n : n \in DOMAIN n2p), 2), LAMBDA pairs :
    \A k \in DOMAIN pairs :
      ~lt(dist(n2p[pairs[k][1]], n2p[pairs[k][2]]), min_dist))

ApplyPointsFarEnoughAway ==
  /\ status = "calling"
  /\ kin.op = "points_far_enough_away"
  /\ kout' = <<points_far_enough_away(name2pt, kin.min_dist)>>
  /\ status' = "returned"
  /\ UNCHANGED <<instructions, fv, name2pt, losses, ndgs, goals, circles, segments, pc, exc,
                 pass, kin>>

\* invert_or_zero: const(1) / x is an argument of cond and is evaluated before
\* cond chooses; dividing by 0 raises with scalars that divide like Python's
\* floats and gives a value that is not a number with scalars that divide
\* like IEEE arrays
ApplyInvertOrZero ==
  /\ status = "calling"
  /\ kin.op = "invert_or_zero"
  /\ \/ /\ SDiv(const(1), kin.x) = Undef
        /\ status' = "raised"
        /\ exc' = "ZeroDivisionError"
        /\ kout' = kout
     \/ /\ status' = "returned"
        /\ exc' = exc
        /\ kout' = <<invert_or_zero(kin.x)>>
  /\ UNCHANGED <<instructions, fv, name2pt, losses, ndgs, goals, circles, segments, pc, pass,
                 kin>>

\* the point of on_neg for the call, which inter_pp_c builds before cond
\* chooses, whatever the sign of the radicand
OnNegOfCall ==
  on_neg(kin.Ps[3], kin.r, shift(kin.Ps[3], <<kin.Ps[1], kin.Ps[2]>>)[1],
         shift(kin.Ps[3], <<kin.Ps[1], kin.Ps[2]>>)[2])[1]

\* r is what inter_lc leaves: the candidates of inter_pp_c and the root
\* chosen among them
InterLcReturns(I, r) ==
  /\ kout' = IF r.st.err # "" THEN kout ELSE <<I[1], I[2], r.val>>
  /\ circles' = r.st.circles
  /\ exc' = r.st.err
  /\ status' = IF r.st.err # "" THEN "raised" ELSE "returned"

\* inter_lc; a division by zero in on_neg raises with scalars that divide
\* like Python's floats and gives a value that is not a number with scalars
\* that divide like IEEE arrays
ApplyInterLc ==
  /\ status = "calling"
  /\ kin.op = "inter_lc"
  /\ \/ /\ Undef \in {OnNegOfCall[1], OnNegOfCall[2]}
        /\ status' = "raised"
        /\ exc' = "ZeroDivisionError"
        /\ UNCHANGED <<kout, circles>>
     \/ InterLcReturns(inter_pp_c(kin.Ps[1], kin.Ps[2], <<kin.Ps[3], kin.r>>),
                       inter_lc(CurState, pp2sif(kin.Ps[1], kin.Ps[2]), <<kin.Ps[3], kin.r>>,
                                kin.root_select))
  /\ UNCHANGED <<instructions, fv, name2pt, losses, ndgs, goals, segments, pc, pass, kin>>

KernelNext ==
  \/ ApplyCircumcenter
  \/ ApplyAssertionVals
  \/ ApplyProcessRs
  \/ ApplyMakeLcIntersect
  \/ ApplyPointsFarEnoughAway
  \/ ApplyInvertOrZero
  \/ ApplyInterLc

KernelSpec == KernelInit /\ [][KernelNext]_vars

(***************************************************************************)
(* What an instruction names: its tags and the points it looks up          *)
(***************************************************************************)
Registries == <<name2pt, losses, ndgs, goals, circles, segments>>

Range(s) == {s[k] : k \in DOMAIN s}

SamplerTags ==
  {"acuteIsoTri", "acuteTri", "equiTri", "isoTri", "polygon", "rightTri", "triangle",
   "uniform"}

ComputeTags == OneArgMethods \cup {"interLL", "interLC", "interCC"}

ParameterizeTags == {"coords", "inPoly", "onCirc", "onLine", "onRay", "onRayOpp", "onSeg"}

LineTags == {"connecting", "paraAt", "perpAt", "mediator", "ibisector", "ebisector", "eqoangle"}

CircleTags == {"c3", "coa", "cong", "diam"}

RootSelectTags == {"neq", "closerTo", "furtherFrom", "oppSides", "sameSide", "arbitrary"}

\* the root selections, circles and lines an instruction carries
RootSelectsOf(i) ==
  IF i.kind = "Compute" /\ i.computation[1] \in {"interLC", "interCC"}
  THEN {i.computation[4]} ELSE {}

CirclesOf(i) ==
  IF i.kind = "Compute" /\ i.computation[1] = "interLC" THEN {i.computation[3]}
  ELSE IF i.kind = "Compute" /\ i.computation[1] = "interCC"
    THEN {i.computation[2], i.computation[3]}
  ELSE IF i.kind = "Parameterize" /\ i.parameterization[1] = "onCirc"
    THEN {i.parameterization[2]}
  ELSE {}

LinesOf(i) ==
  (IF i.kind = "Compute" /\ i.computation[1] = "interLL"
     THEN {i.computation[2], i.computation[3]}
   ELSE IF i.kind = "Compute" /\ i.computation[1] = "interLC" THEN {i.computation[2]}
   ELSE IF i.kind = "Parameterize" /\ i.parameterization[1] = "onLine"
     THEN {i.parameterization[2]}
   ELSE {})
  \cup {rs.vars[2] : rs \in {s \in RootSelectsOf(i) : s.pred \in {"oppSides", "sameSide"}}}

\* some tag of the instruction is one the interpreter does not know
UnknownTag(i) ==
  \/ i.kind \notin Kinds
  \/ i.kind = "Sample" /\ i.sampler \notin SamplerTags
  \/ i.kind = "Compute" /\ i.computation[1] \notin ComputeTags
  \/ i.kind = "Parameterize" /\ i.parameterization[1] \notin ParameterizeTags
  \/ i.kind \in {"Assert", "AssertNDG", "Confirm"} /\ i.constraint.pred \notin Preds
  \/ \E l \in LinesOf(i) : l.pred \notin LineTags
  \/ \E c \in CirclesOf(i) : c.pred \notin CircleTags
  \/ \E rs \in RootSelectsOf(i) : rs.pred \notin RootSelectTags

\* the point names the instruction refers to
NamesOf(i) ==
  (IF i.kind = "Compute" /\ i.computation[1] \in OneArgMethods THEN Range(i.computation[2])
   ELSE IF i.kind = "Parameterize"
           /\ i.parameterization[1] \in {"inPoly", "onRay", "onRayOpp", "onSeg"}
     THEN Range(i.parameterization[2])
   ELSE IF i.kind \in {"Assert", "AssertNDG", "Confirm"} THEN Range(i.constraint.points)
   ELSE {})
  \cup UNION {Range(l.points) : l \in LinesOf(i)}
  \cup UNION {Range(c.points) : c \in CirclesOf(i)}
  \cup UNION {IF rs.pred \in {"neq", "closerTo", "furtherFrom"} THEN Range(rs.vars)
              ELSE IF rs.pred \in {"oppSides", "sameSide"} THEN {rs.vars[1]}
              ELSE {} : rs \in RootSelectsOf(i)}

\* the point names the instruction registers when it completes
RegisteredBy(i) ==
  IF i.kind = "Sample" THEN Range(i.points)
  ELSE IF i.kind = "Compute" \/ i.kind = "Parameterize" THEN {i.point}
  ELSE {}

\* the instruction preprocess is at breaks the frontend's contract
ContractViolation ==
  /\ AtInstruction
  /\ \/ UnknownTag(instructions[pc])
     \/ ~(NamesOf(instructions[pc]) \subseteq DOMAIN name2pt)

(***************************************************************************)
(* C1: preprocess handles the instructions in list order, one at a time    *)
(* and none twice in a call: the loop position moves only from an          *)
(* instruction to the next one, the registries and accumulators change     *)
(* only in the step of the instruction at the loop position, preprocess    *)
(* returns only past the last instruction, and every name registered by an *)
(* instruction before the loop position is in the name registry.           *)
(***************************************************************************)
C1_InListOrder ==
  [][/\ pc' # pc => \/ AtInstruction /\ pc' = pc + 1 /\ pass' = pass
                    \/ status = "done" /\ pc' = 1 /\ pass' = pass + 1
     /\ Registries' # Registries =>
          AtInstruction /\ pass' = pass /\ (pc' = pc + 1 \/ (pc' = pc /\ status' = "raised"))
     /\ status' = "done" => pc' = Len(instructions) + 1
     /\ \A k \in 1..(pc' - 1) : RegisteredBy(instructions[k]) \subseteq DOMAIN name2pt']_vars

\* a computed point that was built from points of earlier instructions
C1_Witness ==
  /\ status = "done"
  /\ Len(instructions) = 5
  /\ instructions[5].kind = "Compute"
  /\ NamesOf(instructions[5]) # {}
  /\ "Q" \in DOMAIN name2pt

(***************************************************************************)
(* C2: an instruction with an unknown kind or tag, or one that names a     *)
(* point missing from the name registry, ends in a raised exception and    *)
(* never completes.                                                        *)
(***************************************************************************)
C2_ContractViolationRaises ==
  [][ContractViolation => status' = "raised" /\ exc' # "" /\ pc' = pc]_vars

C2_Witness ==
  /\ status = "raised"
  /\ exc = "KeyError"
  /\ instructions[pc].kind = "Compute"
  /\ instructions[pc].computation[1] = "interLC"

(***************************************************************************)
(* C3: when an instruction with an unknown tag or a missing point name     *)
(* raises, the name registry, the three residual registries and the two    *)
(* accumulators are as they were before the instruction, and nothing is    *)
(* processed after it.                                                     *)
(***************************************************************************)
C3_RaiseLeavesRegistries ==
  [][/\ status # "raised"
     /\ ContractViolation /\ status' = "raised" => Registries' = Registries]_vars

(***************************************************************************)
(* C4: Assert adds to the loss registry only, AssertNDG to the NDG         *)
(* registry only, Confirm to the goal registry only; none of them changes  *)
(* the name registry or removes an entry.                                  *)
(***************************************************************************)
C4_OneRegistryEach ==
  [][AtInstruction =>
       /\ instructions[pc].kind = "Assert" =>
            /\ <<ndgs', goals', name2pt'>> = <<ndgs, goals, name2pt>>
            /\ DOMAIN losses \subseteq DOMAIN losses'
       /\ instructions[pc].kind = "AssertNDG" =>
            /\ <<losses', goals', name2pt'>> = <<losses, goals, name2pt>>
            /\ DOMAIN ndgs \subseteq DOMAIN ndgs'
       /\ instructions[pc].kind = "Confirm" =>
            /\ <<losses', ndgs', name2pt'>> = <<losses, ndgs, name2pt>>
            /\ DOMAIN goals \subseteq DOMAIN goals']_vars

\* an AssertNDG has registered its residuals
C4_Witness ==
  /\ status = "done"
  /\ Len(instructions) > 0
  /\ instructions[Len(instructions)].kind = "AssertNDG"
  /\ ndgs # EmptyMap
  /\ losses = EmptyMap
  /\ goals = EmptyMap

(***************************************************************************)
(* C5: an Assert or AssertNDG of a supported predicate over registered     *)
(* points, in a number the predicate accepts, completes and registers      *)
(* each of its k residuals with weight 1/k; coll accepts any number of     *)
(* points and insidePolygon any number from one on.                        *)
(***************************************************************************)
C5_WeightOneOverK ==
  [][/\ AtInstruction
     /\ instructions[pc].kind \in {"Assert", "AssertNDG"}
     /\ instructions[pc].constraint.pred \in {"coll", "insidePolygon"}
     /\ Len(instructions[pc].constraint.points) >= 1
     /\ ~instructions[pc].constraint.negate
     /\ NamesOf(instructions[pc]) \subseteq DOMAIN name2pt
     => /\ status' = "running"
        /\ \A key \in (DOMAIN losses' \ DOMAIN losses) :
             losses'[key][2] = Rat(1, Cardinality(DOMAIN losses' \ DOMAIN losses))
        /\ \A key \in (DOMAIN ndgs' \ DOMAIN ndgs) :
             ndgs'[key][2] = Rat(1, Cardinality(DOMAIN ndgs' \ DOMAIN ndgs))]_vars

(***************************************************************************)
(* C9: a Sample with sampler isoTri, acuteIsoTri or rightTri whose         *)
(* argument names one of its three points registers the three names: the   *)
(* two that are not the argument are bound to (-2, 0) and (2, 0).          *)
(***************************************************************************)
C9_VertexBinding ==
  [][/\ AtInstruction
     /\ instructions[pc].kind = "Sample"
     /\ instructions[pc].sampler \in {"isoTri", "acuteIsoTri", "rightTri"}
     /\ Len(instructions[pc].points) = 3
     /\ Len(instructions[pc].args) = 1
     /\ instructions[pc].args[1] \in Range(instructions[pc].points)
     => /\ status' = "running"
        /\ Range(instructions[pc].points) \subseteq DOMAIN name2pt'
        /\ {name2pt'[p] : p \in Range(instructions[pc].points) \ {instructions[pc].args[1]}}
             = {get_point(const(-2), const(0)), get_point(const(2), const(0))}]_vars

(***************************************************************************)
(* Combinations, counted and ordered without building them                 *)
(***************************************************************************)
\* the r-element index choices out of 1..n, each in increasing order
IncTuples(n, r) == {t \in [1..r -> 1..n] : \A k \in 1..(r - 1) : t[k] < t[k + 1]}

\* u comes before t in the order of the dictionary
LexLess(u, t) == \E k \in DOMAIN t : u[k] < t[k] /\ \A j \in 1..(k - 1) : u[j] = t[j]

\* the position of t among the choices of its kind
Rank(t, n) == Cardinality({u \in IncTuples(n, Len(t)) : LexLess(u, t)}) + 1

Choose3(n) == (n * (n - 1) * (n - 2)) \div 6

Choose4(n) == (n * (n - 1) * (n - 2) * (n - 3)) \div 24

\* twice the signed area of the triangle of three points with whole coordinates
IntCross(A, B, C) ==
  (B[1][1] - A[1][1]) * (C[2][1] - A[2][1]) - (B[2][1] - A[2][1]) * (C[1][1] - A[1][1])

AssertionValsReturned(pred) ==
  kin.op = "assertion_vals" /\ kin.pred = pred /\ status = "returned"

(***************************************************************************)
(* C6: over n registered points coll returns C(n, 3) residuals, the one at *)
(* the position of each 3-element combination being the collinearity       *)
(* residual of its three points, and over n > 3 points cycl returns        *)
(* C(n, 4) residuals, one per 4-element combination in the same way.       *)
(***************************************************************************)
C6_OnePerCombination ==
  /\ AssertionValsReturned("coll") =>
       /\ Len(kout) = Choose3(Len(kin.Ps))
       /\ \A t \in IncTuples(Len(kin.Ps), 3) :
            kout[Rank(t, Len(kin.Ps))] = coll_phi(kin.Ps[t[1]], kin.Ps[t[2]], kin.Ps[t[3]])
  /\ kin.op = "assertion_vals" /\ kin.pred = "cycl" /\ Len(kin.Ps) > 3 /\ status # "calling" =>
       /\ status = "returned"
       /\ Len(kout) = Choose4(Len(kin.Ps))
       /\ \A t \in IncTuples(Len(kin.Ps), 4) :
            kout[Rank(t, Len(kin.Ps))] =
              cycl_diff(kin.Ps[t[1]], kin.Ps[t[2]], kin.Ps[t[3]], kin.Ps[t[4]])

\* cycl over five points has returned its five residuals
C6_Witness ==
  /\ AssertionValsReturned("cycl")
  /\ Len(kin.Ps) = 5
  /\ Len(kout) = 5
  /\ Cardinality(Range(kout)) > 1

(***************************************************************************)
(* C7: coll over three collinear points returns the single residual 0;     *)
(* over four points, three of them distinct and collinear and the fourth   *)
(* off their line, the residual of each triple with the fourth point is    *)
(* not 0 and the residual of the triple without it is 0.                   *)
(***************************************************************************)
C7_CollResiduals ==
  AssertionValsReturned("coll") =>
    /\ Len(kin.Ps) = 3 /\ IntCross(kin.Ps[1], kin.Ps[2], kin.Ps[3]) = 0 => kout = <<Zero>>
    /\ Len(kin.Ps) = 4 =>
         \A off \in 1..4 :
           (\E t \in IncTuples(4, 3) :
              /\ off \notin Range(t)
              /\ Cardinality({kin.Ps[t[1]], kin.Ps[t[2]], kin.Ps[t[3]]}) = 3
              /\ IntCross(kin.Ps[t[1]], kin.Ps[t[2]], kin.Ps[t[3]]) = 0
              /\ IntCross(kin.Ps[t[1]], kin.Ps[t[2]], kin.Ps[off]) # 0)
           => \A u \in IncTuples(4, 3) : (kout[Rank(u, 4)] = Zero) <=> off \notin Range(u)

\* the points (0,0), (1,1), (2,2) and then (1,0), which is off their line
C7_Witness ==
  /\ AssertionValsReturned("coll")
  /\ kin.Ps = <<GridPt(0), GridPt(MaxCoord + 2), GridPt(2 * MaxCoord + 4), GridPt(1)>>
  /\ kout[1] = Zero
  /\ kout[2] # Zero

(***************************************************************************)
(* C8: the circumcenter of a triangle of positive area is at the same      *)
(* squared distance from its three vertices.                               *)
(***************************************************************************)
C8_Equidistant ==
  kin.op = "circumcenter" /\ status = "returned"
  /\ IntCross(kin.Ps[1], kin.Ps[2], kin.Ps[3]) # 0
  => /\ IsNum(sqdist(kout[1], kin.Ps[1]))
     /\ sqdist(kout[1], kin.Ps[1]) = sqdist(kout[1], kin.Ps[2])
     /\ sqdist(kout[1], kin.Ps[1]) = sqdist(kout[1], kin.Ps[3])

\* the obtuse triangle (0,0), (1,0), (2,2), whose circumcenter is (1/2, 3/2)
C8_Witness ==
  /\ kin.op = "circumcenter"
  /\ status = "returned"
  /\ kin.Ps = <<GridPt(0), GridPt(1), GridPt(2 * MaxCoord + 4)>>
  /\ IntCross(kin.Ps[1], kin.Ps[2], kin.Ps[3]) # 0
  /\ kout[1] = get_point(Rat(1, 2), Rat(3, 2))

(***************************************************************************)
(* C10 as stated: with the arbitrary policy process_rs returns the same    *)
(* root for the candidates (P1, P2) as for the swapped candidates.         *)
(***************************************************************************)
C10_OrderIndependent ==
  kin.op = "process_rs" /\ kin.root_select.pred = "arbitrary" /\ Len(kout) = 2
  => kout[1] = kout[2]

(***************************************************************************)
(* C10 as amended: with the arbitrary policy process_rs returns the second *)
(* of the two candidates it is passed, P2 for (P1, P2) and P1 for the      *)
(* swapped candidates.                                                     *)
(***************************************************************************)
C10_SecondCandidate ==
  kin.op = "process_rs" /\ kin.root_select.pred = "arbitrary" =>
    /\ exc = ""
    /\ Len(kout) >= 1 => kout[1] = kin.Ps[2]
    /\ Len(kout) = 2 => kout[2] = kin.Ps[1]

C10_Witness ==
  /\ kin.op = "process_rs"
  /\ kin.root_select.pred = "arbitrary"
  /\ Len(kout) = 2
  /\ kin.Ps[1] # kin.Ps[2]

(***************************************************************************)
(* The distance of a circle's center from a line, by whole numbers         *)
(***************************************************************************)
\* the squared length of AB for points with whole coordinates
IntSqDist(A, B) ==
  (B[1][1] - A[1][1]) * (B[1][1] - A[1][1]) + (B[2][1] - A[2][1]) * (B[2][1] - A[2][1])

\* the squared distance of O from the line AB, A # B
SqDistToLine(A, B, O) == Rat(IntCross(A, B, O) * IntCross(A, B, O), IntSqDist(A, B))

\* the distance of O from the line AB, A # B
DistToLine(A, B, O) == sqrt(SqDistToLine(A, B, O))

\* make_lc_intersect has been called for a line through two different points
MakeLcIntersectReturned ==
  kin.op = "make_lc_intersect" /\ status = "returned" /\ kin.Ps[1] # kin.Ps[2]

(***************************************************************************)
(* C11: for a line through two different points the loss of                *)
(* make_lc_intersect is 0 when the center's distance d from the line is at *)
(* most the radius, and of two centers further from the line than the      *)
(* radius the one that is further has the greater loss.                    *)
(***************************************************************************)
C11_ZeroThenIncreasing ==
  MakeLcIntersectReturned =>
    /\ \A k \in 1..2 :
         lte(DistToLine(kin.Ps[1], kin.Ps[2], kin.Ps[k + 2]), kin.r) => kout[k] = Zero
    /\ /\ lt(kin.r, DistToLine(kin.Ps[1], kin.Ps[2], kin.Ps[3]))
       /\ lt(DistToLine(kin.Ps[1], kin.Ps[2], kin.Ps[3]),
             DistToLine(kin.Ps[1], kin.Ps[2], kin.Ps[4]))
       => lt(kout[1], kout[2])

(***************************************************************************)
(* C12: for a line through two different points the loss of                *)
(* make_lc_intersect is d - r when the center's distance d from the line   *)
(* is greater than the radius r, and 0 otherwise.                          *)
(***************************************************************************)
C12_HingeOnExcess ==
  MakeLcIntersectReturned =>
    \A k \in 1..2 :
      IF lt(kin.r, DistToLine(kin.Ps[1], kin.Ps[2], kin.Ps[k + 2]))
      THEN SAdd(kout[k], kin.r) = DistToLine(kin.Ps[1], kin.Ps[2], kin.Ps[k + 2])
      ELSE kout[k] = Zero

\* the distance of A and B is at least the non-negative number m, decided
\* on the squares: |AB|^2 * den(m)^2 >= num(m)^2 * rad(m)
IntAtLeast(A, B, m) == IntSqDist(A, B) * m[2] * m[2] >= m[1] * m[1] * m[3]

PointsFarEnoughAwayReturned == kin.op = "points_far_enough_away" /\ status = "returned"

(***************************************************************************)
(* C15: points_far_enough_away returns True exactly when the points of     *)
(* every two different registered names are at distance min_dist or more   *)
(* (so with fewer than two names it returns True), and leaves the registry *)
(* as it was.                                                              *)
(***************************************************************************)
C15_FarEnoughIffAllPairs ==
  PointsFarEnoughAwayReturned =>
    /\ kout[1] = (\A a, b \in DOMAIN name2pt :
                    a # b => IntAtLeast(name2pt[a], name2pt[b], kin.min_dist))
    /\ name2pt = RegistryOf(kin.Ps)

\* True for a registry whose closest pair is at distance exactly min_dist
C15_Witness ==
  /\ PointsFarEnoughAwayReturned
  /\ kout[1] = TRUE
  /\ Len(kin.Ps) >= 3
  /\ \E a, b \in DOMAIN name2pt :
       a # b /\ IntSqDist(name2pt[a], name2pt[b]) * kin.min_dist[2] * kin.min_dist[2]
                  = kin.min_dist[1] * kin.min_dist[1] * kin.min_dist[3]

\* False for a registry with two names bound to the same point
C15_WitnessRejected ==
  /\ PointsFarEnoughAwayReturned
  /\ kout[1] = FALSE
  /\ \E a, b \in DOMAIN name2pt : a # b /\ name2pt[a] = name2pt[b]

(***************************************************************************)
(* C18: invert_or_zero(x) returns 0 for every x with |x| < 1e-5, x = 0     *)
(* included, and never raises there; for every other x it returns 1 / x.   *)
(***************************************************************************)
C18_ZeroNearZero ==
  kin.op = "invert_or_zero" /\ status # "calling" =>
    /\ status = "returned"
    /\ kout[1] = IF lt(abs(kin.x), Eps5) THEN Zero ELSE SDiv(const(1), kin.x)

\* process_rs has returned for both orders of the candidates under the
\* policy pred
ProcessRsReturnedFor(pred) ==
  kin.op = "process_rs" /\ kin.root_select.pred = pred /\ status = "returned"

\* the reference point of the root selection of the call
RsReference == name2pt[kin.root_select.vars[1]]

\* the smaller and the greater of two whole numbers
IntMin(a, b) == IF a <= b THEN a ELSE b

IntMax(a, b) == IF a >= b THEN a ELSE b

(***************************************************************************)
(* C19: under closerTo process_rs returns the candidate with the smaller   *)
(* squared distance to the reference point and under furtherFrom the one   *)
(* with the greater; when the two are equally far closerTo returns its     *)
(* first candidate and furtherFrom its second.                             *)
(***************************************************************************)
C19_NearestAndFarthest ==
  /\ ProcessRsReturnedFor("closerTo") =>
       /\ \A k \in 1..2 :
            /\ kout[k] \in {kin.Ps[1], kin.Ps[2]}
            /\ IntSqDist(kout[k], RsReference)
                 = IntMin(IntSqDist(kin.Ps[1], RsReference), IntSqDist(kin.Ps[2], RsReference))
       /\ IntSqDist(kin.Ps[1], RsReference) = IntSqDist(kin.Ps[2], RsReference)
            => kout = <<kin.Ps[1], kin.Ps[2]>>
  /\ ProcessRsReturnedFor("furtherFrom") =>
       /\ \A k \in 1..2 :
            /\ kout[k] \in {kin.Ps[1], kin.Ps[2]}
            /\ IntSqDist(kout[k], RsReference)
                 = IntMax(IntSqDist(kin.Ps[1], RsReference), IntSqDist(kin.Ps[2], RsReference))
       /\ IntSqDist(kin.Ps[1], RsReference) = IntSqDist(kin.Ps[2], RsReference)
            => kout = <<kin.Ps[2], kin.Ps[1]>>

\* closerTo has chosen between two different candidates that are equally far
\* from the reference point
C19_Witness ==
  /\ ProcessRsReturnedFor("closerTo")
  /\ kin.Ps[1] # kin.Ps[2]
  /\ IntSqDist(kin.Ps[1], RsReference) = IntSqDist(kin.Ps[2], RsReference)
  /\ kout[1] = kin.Ps[1]

\* furtherFrom has chosen between two different candidates that are equally
\* far from the reference point
C19_WitnessFurther ==
  /\ ProcessRsReturnedFor("furtherFrom")
  /\ kin.Ps[1] # kin.Ps[2]
  /\ IntSqDist(kin.Ps[1], RsReference) = IntSqDist(kin.Ps[2], RsReference)
  /\ kout[1] = kin.Ps[2]

\* the grid point P is further than 1e-6 from the reference point: two grid
\* points are the same or at least 1 apart
FarFromReference(P) == IntSqDist(P, RsReference) > 0

(***************************************************************************)
(* C20: under neq process_rs returns its first candidate when that is      *)
(* further than 1e-6 from the reference point and its second otherwise, so *)
(* it returns a candidate further than 1e-6 from the reference point       *)
(* whenever one of the two is.                                             *)
(***************************************************************************)
C20_AwayFromReference ==
  ProcessRsReturnedFor("neq") =>
    /\ kout[1] = IF FarFromReference(kin.Ps[1]) THEN kin.Ps[1] ELSE kin.Ps[2]
    /\ kout[2] = IF FarFromReference(kin.Ps[2]) THEN kin.Ps[2] ELSE kin.Ps[1]
    /\ FarFromReference(kin.Ps[1]) \/ FarFromReference(kin.Ps[2])
         => FarFromReference(kout[1]) /\ FarFromReference(kout[2])

\* neq has passed over a first candidate on the reference point
C20_Witness ==
  /\ ProcessRsReturnedFor("neq")
  /\ ~FarFromReference(kin.Ps[1])
  /\ FarFromReference(kin.Ps[2])
  /\ kout[1] = kin.Ps[2]

\* inter_lc has been called with one of the six policies and their
\* reference points registered, and has returned or raised
InterLcDone ==
  /\ kin.op = "inter_lc" /\ status # "calling"
  /\ kin.root_select.pred \in {"neq", "closerTo", "furtherFrom", "oppSides", "sameSide",
                               "arbitrary"}
  /\ kin.root_select # RootSelect("closerTo", <<"X">>)

\* the radicand r^2 * |P1 P2|^2 - D^2 of the call is negative: the line
\* passes the center at a distance greater than the radius
RadicandNegative ==
  kin.r[1] * kin.r[1] * IntSqDist(kin.Ps[1], kin.Ps[2])
    < kin.r[2] * kin.r[2] * IntCross(kin.Ps[1], kin.Ps[2], kin.Ps[3])
        * IntCross(kin.Ps[1], kin.Ps[2], kin.Ps[3])

(***************************************************************************)
(* C22: when the radicand is negative inter_pp_c does not fail and its two *)
(* candidate roots are one and the same fallback point, a point with       *)
(* defined coordinates, and inter_lc returns that point under each of the  *)
(* policies neq, closerTo, furtherFrom, oppSides, sameSide and arbitrary.  *)
(***************************************************************************)
C22_OneFallbackPoint ==
  InterLcDone /\ RadicandNegative =>
    /\ status = "returned"
    /\ kout[1] = kout[2]
    /\ kout[3] = kout[1]
    /\ Undef \notin {kout[1][1], kout[1][2]}

(***************************************************************************)
(* One pass of preprocess over the whole instruction list, as a function   *)
(***************************************************************************)
\* the interpreter right after construction
FreshState ==
  [name2pt |-> EmptyMap, losses |-> EmptyMap, ndgs |-> EmptyMap, goals |-> EmptyMap,
   circles |-> <<>>, segments |-> <<>>, err |-> ""]

\* process_instruction for the instruction i in the state st
HandlerResult(st, i) ==
  IF i.kind = "Sample" THEN sample(st, i)
  ELSE IF i.kind = "Compute" THEN compute(st, i)
  ELSE IF i.kind = "Parameterize" THEN parameterize(st, i)
  ELSE IF i.kind = "Assert" THEN add(st, i)
  ELSE IF i.kind = "AssertNDG" THEN addNDG(st, i)
  ELSE IF i.kind = "Confirm" THEN confirm(st, i)
  ELSE Raise(st, "NotImplementedError")

RECURSIVE PassFrom(_, _)
\* the state preprocess leaves when it goes on from instruction k in state st
PassFrom(st, k) ==
  IF k > Len(instructions) \/ st.err # "" THEN st
  ELSE PassFrom(HandlerResult(st, instructions[k]), k + 1)

\* the registries and accumulators of a state of the interpreter
RegistriesOf(st) == <<st.name2pt, st.losses, st.ndgs, st.goals, st.circles, st.segments>>

(***************************************************************************)
(* C13: when preprocess has run a second time over the same instructions   *)
(* with the same free-variable values, the name registry, the loss, NDG    *)
(* and goal registries and the segment and circle lists are what one pass  *)
(* from the freshly constructed interpreter leaves.                        *)
(***************************************************************************)
C13_SecondPassSame ==
  status = "done" /\ pass = 2 => Registries = RegistriesOf(PassFrom(FreshState, 1))

\* the first pass leaves what the function of one pass says (a check of
\* PassFrom against the actions)
PassFromAgrees ==
  status = "done" /\ pass = 1 => Registries = RegistriesOf(PassFrom(FreshState, 1))

IsPrefix(s, t) == Len(s) <= Len(t) /\ \A k \in 1..Len(s) : t[k] = s[k]

(***************************************************************************)
(* C14: every step of preprocess leaves the segment list and the circle    *)
(* list with the lists from before the step as prefixes.                   *)
(***************************************************************************)
C14_AppendOnly ==
  [][IsPrefix(segments, segments') /\ IsPrefix(circles, circles')]_vars

\* an instruction has appended to a segment list that already had entries
C14_Witness ==
  /\ status = "running" /\ pass = 1 /\ pc = Len(instructions) + 1 /\ pc > 1
  /\ instructions[pc - 1].kind = "Compute"
  /\ instructions[pc - 1].computation[1] = "midp"
  /\ Len(segments) > 3

\* preprocess is at a Parameterize instruction with the method m
AtParameterize(m) ==
  /\ AtInstruction
  /\ instructions[pc].kind = "Parameterize"
  /\ instructions[pc].parameterization[1] = m

\* the step registers its point under the instruction's name and no other
RegistersItsPoint ==
  /\ DOMAIN name2pt' = DOMAIN name2pt \cup {instructions[pc].point}
  /\ \A n \in DOMAIN name2pt : n # instructions[pc].point => name2pt'[n] = name2pt[n]

\* the labels of the regularization entries of the point p
RegularizationLabels(p) == {p \o "_seg_regularization", p \o "_line_regularization"}

(***************************************************************************)
(* C16: every Parameterize instruction that completes, whatever its        *)
(* method, registers exactly one point, under its name, and puts an entry  *)
(* for its free variable into the loss registry.                           *)
(***************************************************************************)
C16_PointAndRegularization ==
  [][/\ \E m \in {"coords", "onSeg", "onLine", "onRay", "onRayOpp", "onCirc", "inPoly"} :
          AtParameterize(m)
     /\ status' # "raised"
     => /\ RegistersItsPoint
        /\ \/ DOMAIN losses' # DOMAIN losses
           \/ \E k \in DOMAIN losses' : k \in RegularizationLabels(instructions[pc].point)]_vars

(***************************************************************************)
(* C16, amended: every Parameterize instruction that completes registers   *)
(* exactly one point, under its name; onSeg and onLine put one entry of    *)
(* weight 1/10000 into the loss registry, labelled <p>_seg_regularization  *)
(* and <p>_line_regularization, and the other methods leave the loss       *)
(* registry as it was.                                                     *)
(***************************************************************************)
C16_RegularizationOnSegAndLineOnly ==
  [][/\ AtInstruction /\ instructions[pc].kind = "Parameterize"
     /\ status' # "raised"
     => /\ RegistersItsPoint
        /\ AtParameterize("onSeg") =>
             /\ DOMAIN losses' = DOMAIN losses \cup {instructions[pc].point \o "_seg_regularization"}
             /\ losses'[instructions[pc].point \o "_seg_regularization"][2] = Rat(1, 10000)
             /\ \A k \in DOMAIN losses : k \notin RegularizationLabels(instructions[pc].point)
                                           => losses'[k] = losses[k]
        /\ AtParameterize("onLine") =>
             /\ DOMAIN losses' = DOMAIN losses \cup {instructions[pc].point \o "_line_regularization"}
             /\ losses'[instructions[pc].point \o "_line_regularization"][2] = Rat(1, 10000)
             /\ \A k \in DOMAIN losses : k \notin RegularizationLabels(instructions[pc].point)
                                           => losses'[k] = losses[k]
        /\ ~AtParameterize("onSeg") /\ ~AtParameterize("onLine") => losses' = losses]_vars

\* a point parameterized on a segment has been registered in the first pass
C16_Witness ==
  /\ status = "running" /\ pass = 1 /\ pc = Len(instructions) + 1 /\ pc > 1
  /\ instructions[pc - 1].kind = "Parameterize"
  /\ instructions[pc - 1].parameterization[1] = "onSeg"
  /\ instructions[pc - 1].point \in DOMAIN name2pt
  /\ (instructions[pc - 1].point \o "_seg_regularization") \in DOMAIN losses

\* a point parameterized on a ray has been registered in the first pass
C16_WitnessOnRay ==
  /\ status = "running" /\ pass = 1 /\ pc = Len(instructions) + 1 /\ pc > 1
  /\ instructions[pc - 1].kind = "Parameterize"
  /\ instructions[pc - 1].parameterization[1] = "onRay"
  /\ instructions[pc - 1].point \in DOMAIN name2pt

\* preprocess is at a Compute instruction with the method m
AtCompute(m) ==
  /\ AtInstruction
  /\ instructions[pc].kind = "Compute"
  /\ instructions[pc].computation[1] = m

(***************************************************************************)
(* C17: every Compute interLC or interCC instruction that completes        *)
(* registers exactly one point, under its name p, and puts exactly one     *)
(* entry into the loss registry, labelled interLC_<p> with weight 1/10;    *)
(* the NDG and goal registries stay as they were.                          *)
(***************************************************************************)
C17_RootAndItsLoss ==
  [][/\ AtCompute("interLC") \/ AtCompute("interCC")
     /\ status' # "raised"
     => /\ RegistersItsPoint
        /\ DOMAIN losses' = DOMAIN losses \cup {"interLC_" \o instructions[pc].point}
        /\ losses'["interLC_" \o instructions[pc].point][2] = Rat(1, 10)
        /\ \A k \in DOMAIN losses :
             k # "interLC_" \o instructions[pc].point => losses'[k] = losses[k]
        /\ ndgs' = ndgs /\ goals' = goals]_vars

\* the root of a line and a circle has been registered in the first pass
C17_Witness ==
  /\ status = "running" /\ pass = 1 /\ pc = Len(instructions) + 1 /\ pc > 1
  /\ instructions[pc - 1].kind = "Compute"
  /\ instructions[pc - 1].computation[1] = "interLC"
  /\ instructions[pc - 1].point \in DOMAIN name2pt
  /\ ("interLC_" \o instructions[pc - 1].point) \in DOMAIN losses

\* the root of two circles has been registered in the first pass
C17_WitnessInterCC ==
  /\ status = "running" /\ pass = 1 /\ pc = Len(instructions) + 1 /\ pc > 1
  /\ instructions[pc - 1].kind = "Compute"
  /\ instructions[pc - 1].computation[1] = "interCC"
  /\ instructions[pc - 1].point \in DOMAIN name2pt
  /\ ("interLC_" \o instructions[pc - 1].point) \in DOMAIN losses

\* preprocess is at an Assert, AssertNDG or Confirm instruction
AtConstraint == AtInstruction /\ instructions[pc].kind \in {"Assert", "AssertNDG", "Confirm"}

\* the residuals of the predicate of the instruction preprocess is at
ResidualsHere ==
  assertion_vals(CurState, instructions[pc].constraint.pred,
                 instructions[pc].constraint.points).val

DecimalDigits == <<"0", "1", "2", "3", "4", "5", "6", "7", "8", "9">>

RECURSIVE Numeral(_)
\* the decimal numeral of a natural number
Numeral(i) ==
  IF i < 10 THEN DecimalDigits[i + 1]
  ELSE Numeral(i \div 10) \o DecimalDigits[(i % 10) + 1]

RECURSIVE JoinedUpTo(_, _)
\* the first n names of ps with _ between them
JoinedUpTo(ps, n) ==
  IF n = 0 THEN ""
  ELSE IF n = 1 THEN ps[1]
  ELSE JoinedUpTo(ps, n - 1) \o "_" \o ps[n]

\* <pred>_<names joined by _> for the instruction preprocess is at, after
\* not_ for AssertNDG and for a negated Confirm
BareLabelHere ==
  (IF \/ instructions[pc].kind = "AssertNDG"
      \/ instructions[pc].kind = "Confirm" /\ instructions[pc].constraint.negate
   THEN "not_" ELSE "")
    \o instructions[pc].constraint.pred \o "_"
    \o JoinedUpTo(instructions[pc].constraint.points, Len(instructions[pc].constraint.points))

\* the label of residual i (from 0) of k
LabelHere(k, i) == IF k = 1 THEN BareLabelHere ELSE BareLabelHere \o "_" \o Numeral(i)

\* the registry reg has become reg2 by k entries under the k labels of the
\* instruction, entry i holding residual i, and nothing else
LabelledInto(reg, reg2, vals) ==
  /\ Cardinality({LabelHere(Len(vals), i) : i \in 0..(Len(vals) - 1)}) = Len(vals)
  /\ DOMAIN reg2 = DOMAIN reg \cup {LabelHere(Len(vals), i) : i \in 0..(Len(vals) - 1)}
  /\ \A i \in 0..(Len(vals) - 1) : reg2[LabelHere(Len(vals), i)][1] = vals[i + 1]
  /\ \A key \in DOMAIN reg :
       key \notin {LabelHere(Len(vals), i) : i \in 0..(Len(vals) - 1)} => reg2[key] = reg[key]

(***************************************************************************)
(* C21: an Assert, AssertNDG or Confirm instruction whose predicate yields *)
(* k >= 1 residuals registers exactly k entries, under k different labels: *)
(* <pred>_<names joined by _> when k = 1, and that label followed by _0 to *)
(* _(k-1) in the order of the residuals otherwise; the labels of AssertNDG *)
(* and of a negated Confirm start with not_.                               *)
(***************************************************************************)
C21_OneLabelPerResidual ==
  [][AtConstraint /\ status' # "raised" /\ Len(ResidualsHere) >= 1
     => /\ instructions[pc].kind = "Assert" => LabelledInto(losses, losses', ResidualsHere)
        /\ instructions[pc].kind = "AssertNDG" => LabelledInto(ndgs, ndgs', ResidualsHere)
        /\ instructions[pc].kind = "Confirm" => LabelledInto(goals, goals', ResidualsHere)]_vars

\* an Assert with four residuals has been registered in the first pass
C21_Witness ==
  /\ status = "running" /\ pass = 1 /\ pc = Len(instructions) + 1 /\ pc > 1
  /\ instructions[pc - 1] = AssertI("coll", <<"A", "B", "C", "P">>, FALSE)
  /\ {"coll_A_B_C_P_0", "coll_A_B_C_P_1", "coll_A_B_C_P_2", "coll_A_B_C_P_3"}
       \subseteq DOMAIN losses

\* an AssertNDG with one residual has been registered in the first pass
C21_WitnessNDG ==
  /\ status = "running" /\ pass = 1 /\ pc = Len(instructions) + 1 /\ pc > 1
  /\ instructions[pc - 1] = AssertNDG("coll", <<"A", "B", "C">>)
  /\ "not_coll_A_B_C" \in DOMAIN ndgs

\* a negated Confirm has been registered in the first pass
C21_WitnessNegatedConfirm ==
  /\ status = "running" /\ pass = 1 /\ pc = Len(instructions) + 1 /\ pc > 1
  /\ instructions[pc - 1].kind = "Confirm" /\ instructions[pc - 1].constraint.negate
  /\ \E key \in DOMAIN goals : SubSeq(key, 1, 4) = "not_"

====
